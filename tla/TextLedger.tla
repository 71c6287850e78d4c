----------------------------- MODULE TextLedger -----------------------------
(* What a session promises about the texts its user submits, with no actor,  *)
(* mailbox or phase in sight.  A submitted text is pending until it enters   *)
(* the history, for good, or is handed back to the input box, where it stays *)
(* until it is submitted again or a later hand-back overwrites it.           *)
CONSTANT Msgs

VARIABLE fate

Fates == {"unsent", "pending", "sent", "handedBack", "overwritten"}

With(f) == {m \in Msgs : fate[m] = f}

Move(from, to) == [m \in Msgs |-> IF m \in from THEN to ELSE fate[m]]

LedgerInit == fate = [m \in Msgs |-> "unsent"]

\* The box is emptied into the message, with at most one new text behind it.
SubmitBox(new) == /\ new \subseteq With("unsent")
                  /\ new \cup With("handedBack") # {}
                  /\ fate' = Move(new \cup With("handedBack"), "pending")

Commit(texts) == /\ texts # {} /\ texts \subseteq With("pending")
                 /\ fate' = Move(texts, "sent")

HandBack(texts) ==
  /\ texts # {} /\ texts \subseteq With("pending")
  /\ fate' = [m \in Msgs |-> IF m \in texts THEN "handedBack"
                            ELSE IF fate[m] = "handedBack" THEN "overwritten"
                            ELSE fate[m]]

LedgerNext == \/ \E new \in {{}} \cup {{m} : m \in Msgs} : SubmitBox(new)
              \/ \E texts \in SUBSET Msgs : Commit(texts) \/ HandBack(texts)

LedgerSpec == LedgerInit /\ [][LedgerNext]_fate
=============================================================================
