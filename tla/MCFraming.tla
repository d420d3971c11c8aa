------------------------------ MODULE MCFraming ------------------------------
(* Payloads of every length up to one more than fits, zeros among them. *)
EXTENDS Framing

MCPayloads == {<<>>, <<1>>, <<0, 2>>, <<1, 0, 0>>, <<1, 2, 3>>, <<1, 0, 0, 0>>}
=============================================================================
