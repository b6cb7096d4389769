------------------------------- MODULE MCVault -------------------------------
(* Two chains with three emitters, three transaction ids, and the VAAs that  *)
(* differ in what the vault looks at.                                      *)
EXTENDS Vault

CONSTANTS t1, t2, t3, aztec, solana, e1, e2, e3

Message(c, e, t, amount) ==
  [chain |-> c, emitter |-> e, valid |-> TRUE, txId |-> t, amount |-> amount]

\* Amounts whose first byte is zero, one, the largest; a payload too short;
\* no transaction id; a VAA of one's own making.
MCVm ==
  { Message(aztec, e1, t1, <<1, 0>>),
    Message(aztec, e1, t2, <<255, 255>>),
    Message(aztec, e2, t1, <<2, 0>>),
    Message(solana, e2, t2, <<0, 9>>),
    Message(solana, e1, t3, <<7, 7>>),
    Message(aztec, e2, t3, <<0, 1>>),
    Message(aztec, e3, t1, <<0, 0>>),
    Message(aztec, e1, t1, <<>>),
    Message(aztec, e1, "zero", <<3, 0>>),
    [Message(aztec, e1, t2, <<4, 0>>) EXCEPT !.valid = FALSE] }
=============================================================================
