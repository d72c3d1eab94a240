--------------------------- MODULE SnapshotLedger ---------------------------
(***************************************************************************)
(* What a client of the import of snapshots relies on.  A snapshot is      *)
(* recorded with all its stocks in one step, or never; a batch is used     *)
(* once, and what is recorded stays.  `imported' answers the request that  *)
(* made the record, `duplicate' one whose very content was on record.  An  *)
(* error, or no answer at all, is possible after the record as well as     *)
(* before it: the client may send the same again to find out.              *)
(* OnecStorage implements this specification.                              *)
(***************************************************************************)
EXTENDS Snapshot

CONSTANT Clients

VARIABLES ledger,   \* the recorded snapshots
          stocks,   \* their stocks
          sent,     \* the snapshot that a client wants to be recorded, or none
          answer    \* its last answer, or how far its request is

lvars == <<ledger, stocks, sent, answer>>

Init ==
    /\ ledger = {} /\ stocks = {}
    /\ sent = [c \in Clients |-> {}] /\ answer = [c \in Clients |-> "none"]

Open(c) == answer[c] \in {"waiting", "recorded"}
Become(c, a) == answer' = [answer EXCEPT ![c] = a]
Reply(c, a) == Become(c, a) /\ sent' = [sent EXCEPT ![c] = {}]

Ask(c) ==
    /\ ~Open(c)
    /\ Become(c, "waiting") /\ UNCHANGED <<ledger, stocks, sent>>

\* There is nothing to ask 1C for, or no way to find out.
Decline(c) ==
    /\ ~Open(c)
    /\ \E a \in {"empty", "failed"} : Reply(c, a)
    /\ UNCHANGED <<ledger, stocks>>

Send(c) ==
    /\ answer[c] = "waiting" /\ sent[c] = {}
    /\ \E r \in sent'[c] : sent' = [sent EXCEPT ![c] = {r}]
    /\ UNCHANGED <<ledger, stocks, answer>>

Record(c) ==
    /\ answer[c] = "waiting"
    /\ \E r \in sent[c] :
         /\ r.batch \notin KeysOf(ledger)
         /\ KeysOf(StockRows(r)) \cap KeysOf(stocks) = {}
         /\ ledger' = ledger \cup {SnapshotRow(r)}
         /\ stocks' = stocks \cup StockRows(r)
    /\ \/ Become(c, "recorded") /\ UNCHANGED sent
       \/ Reply(c, "failed")

Imported(c) ==
    /\ answer[c] = "recorded"
    /\ Reply(c, "imported") /\ UNCHANGED <<ledger, stocks>>

Repeat(c) ==
    /\ answer[c] = "waiting"
    /\ \E r \in sent[c] : SnapshotRow(r) \in ledger
    /\ Reply(c, "duplicate") /\ UNCHANGED <<ledger, stocks>>

Refuse(c) ==
    /\ answer[c] = "waiting"
    /\ Reply(c, "failed") /\ UNCHANGED <<ledger, stocks>>

\* The service dies: the requests under way are never answered.
Die ==
    /\ answer' = [c \in Clients |-> IF Open(c) THEN "lost" ELSE answer[c]]
    /\ sent' = [c \in Clients |-> {}]
    /\ UNCHANGED <<ledger, stocks>>

Next ==
    \/ \E c \in Clients : \/ Ask(c) \/ Decline(c) \/ Send(c) \/ Record(c)
                          \/ Imported(c) \/ Repeat(c) \/ Refuse(c)
    \/ Die

Spec == Init /\ [][Next]_lvars
=============================================================================
