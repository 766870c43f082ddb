---------------------------- MODULE MCIdempotency ----------------------------
(* Finite instances of Idempotency for TLC.                                    *)
EXTENDS Idempotency, TLC

CONSTANTS e0, e1, e2, e3, e4

FiveMessages == {<<0, 0>>, <<0, 1>>, <<0, 2>>, <<1, 0>>, <<1, 1>>}

(* every message carries an event of its own *)
EventOfMessage ==
    (<<0, 0>> :> e0) @@ (<<0, 1>> :> e1) @@ (<<0, 2>> :> e2) @@
    (<<1, 0>> :> e3) @@ (<<1, 1>> :> e4)
=============================================================================
