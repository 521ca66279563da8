----------------------------- MODULE MCMailSend -----------------------------
(* Small instances of MailSend for TLC.                                    *)
EXTENDS MailSend, TLC

CONSTANTS t1, t2, r1, r2, c1, c2
Symmetry == Permutations(Call) \cup Permutations(Request) \cup Permutations(Text)
=============================================================================
