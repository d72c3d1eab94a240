------------------------------ MODULE Ka2Read ------------------------------
(***************************************************************************)
(* Ka2Inventory::pull of src/onec_ka2_inventory.cpp, and the preview a user *)
(* asks for with POST /api/inventory/ka2/preview (src/handlers.cpp): five   *)
(* reads of 1C over HTTP, one after another.  The warehouses are read by    *)
(* the thread of the request; for the others the keys are cut into chunks   *)
(* that a team of threads takes one by one.  A flat read (catalogue,        *)
(* register of information) asks for pages; a balance is one page, and a    *)
(* chunk whose URL the server finds too long is asked for in halves.        *)
(* What cannot be read is left out, and the read goes on.                   *)
(*                                                                         *)
(* A step is an HTTP request and what the thread does with its answer, or   *)
(* a section under the mutex of the team.  Every caller passes a null       *)
(* `stop', and read_chunked has no caller: neither is modelled.             *)
(***************************************************************************)
EXTENDS Preview, Sequences

CONSTANTS Workers,       \* parallel_workers, the threads of a team
          Main,          \* the thread of the request
          Requests,      \* the SKUs a request selects, as sequences
          Books,         \* what 1C may hold at first
          Newcomers,     \* a row of a stage that may appear in it later
          UrlLimits,     \* the most keys the server takes in a URL
          ChunkSize,     \* keys of a chunk, of a flat read and of a balance
          BalanceChunk,
          PageSize,      \* rows of a page, of a flat read and of a balance
          BalanceTop,
          MaxRetries,    \* max_retries
          MaxFaults,     \* bound: requests that fail
          MaxOdd,        \* bound: answers that are not what was asked for
          MaxChanges     \* bound: edits in 1C

Flat == {"warehouses", "analytics", "suppliers"}
Balance == {"costs", "stocks"}
Stages == Flat \cup Balance
AllKeys == <<"all">>      \* the warehouses are read without a filter

ASSUME ReadAssumption ==
    /\ IsFiniteSet(Workers) /\ Workers # {} /\ Main \notin Workers
    /\ ChunkSize \in Nat \ {0} /\ BalanceChunk \in Nat \ {0}
    /\ PageSize \in Nat \ {0} /\ BalanceTop \in Nat \ {0}
    /\ MaxRetries \in Nat \ {0} /\ UrlLimits \subseteq Nat \ {0}
    /\ MaxFaults \in Nat /\ MaxOdd \in Nat /\ MaxChanges \in Nat

IsSequence(s) == s \in Seq({s[i] : i \in DOMAIN s})
Distinct(s) == \A i, j \in DOMAIN s : s[i] = s[j] => i = j

\* inventory1c_products has a SKU once (uq_inv1c_product_tenant_ref).
ASSUME RequestAssumption == \A ks \in Requests : IsSequence(ks) /\ Distinct(ks)

\* What 1C may have to return for a read: a row is [key, val, good], and the
\* field it is asked for by (key) and whether it is of use (good) are part of
\* what it says (val).  No row is there twice, and no analytic key.
Entries(s) ==
    {Newcomers[x] : x \in DOMAIN Newcomers \cap {s}}
    \cup UNION {{b[s][i] : i \in DOMAIN b[s]} : b \in Books}
ASSUME BookAssumption ==
    /\ DOMAIN Newcomers \subseteq Stages
    /\ \A s \in Stages : \A x, y \in Entries(s) : x.val = y.val => x = y
    /\ \A x \in UNION {Entries(s) : s \in Stages} : x.good \in BOOLEAN
    /\ \A b \in Books :
         /\ DOMAIN b = Stages /\ \A s \in Stages : IsSequence(b[s]) /\ Distinct(b[s])
         /\ \A i, j \in DOMAIN b["analytics"] :
              b["analytics"][i].val.ref = b["analytics"][j].val.ref => i = j

VARIABLES stage,     \* the read that goes on, or how the request has ended
          skus,      \* product_keys
          keys,      \* the keys of this read
          next,      \* next_chunk, next_idx
          reader,    \* the threads
          out,       \* the rows of this read
          pulled,    \* PullResult
          answer,    \* the preview, once there is one
          book,      \* the publication of 1C
          limit, faults, odd, changes,
          lost       \* history: the keys a read has given up, and why

onec == <<book, limit, changes>>
vars == <<stage, skus, keys, next, reader, out, pulled, answer, onec, faults, odd, lost>>

Rest == [at |-> "ended", parts |-> <<>>, skip |-> 0, attempt |-> 1, local |-> <<>>]
NoPull == [s \in Stages |-> {}]
Places == {"take", "read", "push", "ended", "thrown"}
Endings == {"answered", "refused", "thrown"}
NoAnswer == BuildPreview(PullToSnapshot(NoPull, {}))
Reasons == {"retries", "odd", "url", "top"}

Init ==
    /\ stage = "start" /\ skus = <<>> /\ keys = <<>> /\ next = 1
    /\ reader = [r \in Workers \cup {Main} |-> Rest]
    /\ out = <<>> /\ pulled = [s \in Stages |-> <<>>] /\ answer = NoAnswer
    /\ book \in Books /\ limit \in UrlLimits
    /\ faults = 0 /\ odd = 0 /\ changes = 0
    /\ lost = [s \in Stages |-> {}]

---------------------------------------------------------------------------
Lesser(a, b) == IF a < b THEN a ELSE b

\* chunk_vector: the chunks of the keys, of which the last may be shorter.
ChunkLength == IF stage \in Balance THEN BalanceChunk ELSE ChunkSize
Offset(k) == (k - 1) * ChunkLength
HasChunk(k) == Offset(k) < Len(keys)
Chunk(k) == SubSeq(keys, Offset(k) + 1, Lesser(Offset(k) + ChunkLength, Len(keys)))

\* The threads of a read.
Team(s) == IF s = "warehouses" THEN {Main} ELSE Workers

\* The rows at some places of a sequence, in their order.
Nth(places, n) == CHOOSE i \in places : Cardinality({j \in places : j <= i}) = n
Pick(rows, places) == [n \in 1 .. Cardinality(places) |-> rows[Nth(places, n)]]

\* The rows of 1C that match a filter, and the page of them that is asked for.
HasKey(ks, k) == \E i \in DOMAIN ks : ks[i] = k
Matching(part) ==
    Pick(book[stage], {i \in DOMAIN book[stage] : HasKey(part, book[stage][i].key)})
Page(found, skip) ==
    LET top == IF stage \in Balance THEN BalanceTop ELSE PageSize
    IN  SubSeq(found, skip + 1, Lesser(skip + top, Len(found)))

\* Folders, deleted warehouses and rows without a key or a price are dropped.
Kept(rows) == Pick(rows, {i \in DOMAIN rows : rows[i].good})

Missing(part, why) == [lost EXCEPT ![stage] = @ \cup {<<part[i], why>> : i \in DOMAIN part}]

---------------------------------------------------------------------------
(* The request and its reads.                                              *)

StartRead(s, ks) ==
    /\ stage' = s /\ keys' = ks /\ next' = 1 /\ out' = <<>>
    /\ reader' = [r \in Workers \cup {Main} |->
                    IF r \in Team(s) THEN [Rest EXCEPT !.at = "take"] ELSE Rest]

\* The handler selects the SKUs; without any it answers 400.
Ask ==
    /\ stage = "start"
    /\ \E ks \in Requests :
         /\ skus' = ks
         /\ IF ks = <<>> THEN stage' = "refused" /\ UNCHANGED <<keys, next, reader, out>>
            ELSE StartRead("warehouses", AllKeys)
    /\ UNCHANGED <<pulled, answer, onec, faults, odd, lost>>

Set(r, rec) == reader' = [reader EXCEPT ![r] = rec]

\* A thread takes the next chunk, or leaves.
Take(r) ==
    /\ reader[r].at = "take"
    /\ IF HasChunk(next)
       THEN /\ Set(r, [Rest EXCEPT !.at = "read", !.parts = <<Chunk(next)>>])
            /\ next' = next + 1
       ELSE Set(r, Rest) /\ UNCHANGED next
    /\ UNCHANGED <<stage, skus, keys, out, pulled, answer, onec, faults, odd, lost>>

\* A part of the chunk is over; `rows' is what it has added.
PartDone(r, rows) ==
    LET left == IF stage \in Balance THEN Tail(reader[r].parts) ELSE <<>>
    IN  Set(r, [at |-> IF left = <<>> THEN "push" ELSE "read", parts |-> left,
                skip |-> 0, attempt |-> 1, local |-> reader[r].local \o rows])

TooLong(r) == Len(Head(reader[r].parts)) > limit

\* Mutant: the end of the data is told from the rows that are kept.
ReceiveKept(r) ==
    /\ reader[r].at = "read" /\ ~(stage # "warehouses" /\ TooLong(r))
    /\ \E found \in {Matching(Head(reader[r].parts))} : \E page \in {Page(found, reader[r].skip)} :
         /\ IF stage \in Balance \/ Len(Kept(page)) < PageSize THEN PartDone(r, Kept(page))
            ELSE Set(r, [reader[r] EXCEPT !.skip = @ + Len(page), !.attempt = 1,
                                          !.local = @ \o Kept(page)])
         /\ lost' = IF stage \in Balance /\ Len(found) > BalanceTop
                    THEN Missing(Head(reader[r].parts), "top") ELSE lost
    /\ UNCHANGED <<stage, skus, keys, next, out, pulled, answer, onec, faults, odd>>

\* A page of rows.  A flat read goes on until one is not full; a balance has
\* one page only, and what is beyond it is not asked for.
Receive(r) ==
    /\ reader[r].at = "read" /\ ~(stage # "warehouses" /\ TooLong(r))
    /\ \E found \in {Matching(Head(reader[r].parts))} : \E page \in {Page(found, reader[r].skip)} :
         /\ IF stage \in Balance \/ Len(page) < PageSize THEN PartDone(r, Kept(page))
            ELSE Set(r, [reader[r] EXCEPT !.skip = @ + Len(page), !.attempt = 1,
                                          !.local = @ \o Kept(page)])
         /\ lost' = IF stage \in Balance /\ Len(found) > BalanceTop
                    THEN Missing(Head(reader[r].parts), "top") ELSE lost
    /\ UNCHANGED <<stage, skus, keys, next, out, pulled, answer, onec, faults, odd>>

GiveUp(r, why) ==
    /\ PartDone(r, <<>>)
    /\ lost' = Missing(Head(reader[r].parts), why)

\* Mutant: one attempt too many.
FailOnceMore(r) ==
    /\ reader[r].at = "read" /\ faults < MaxFaults
    /\ faults' = faults + 1
    /\ IF reader[r].attempt <= MaxRetries
       THEN Set(r, [reader[r] EXCEPT !.attempt = @ + 1]) /\ UNCHANGED lost
       ELSE GiveUp(r, "retries")
    /\ UNCHANGED <<stage, skus, keys, next, out, pulled, answer, onec, odd>>

\* The request fails, and is made again until max_retries are used up.
Fail(r) ==
    /\ reader[r].at = "read" /\ faults < MaxFaults
    /\ faults' = faults + 1
    /\ IF reader[r].attempt < MaxRetries
       THEN Set(r, [reader[r] EXCEPT !.attempt = @ + 1]) /\ UNCHANGED lost
       ELSE GiveUp(r, "retries")
    /\ UNCHANGED <<stage, skus, keys, next, out, pulled, answer, onec, odd>>

Halves(part) == <<SubSeq(part, 1, Len(part) \div 2),
                  SubSeq(part, Len(part) \div 2 + 1, Len(part))>>

\* Mutant: the chunk is asked for again as it is.
UrlTooLongAgain(r) ==
    /\ reader[r].at = "read" /\ stage # "warehouses" /\ TooLong(r)
    /\ Set(r, [reader[r] EXCEPT !.attempt = 1])
    /\ UNCHANGED <<stage, skus, keys, next, out, pulled, answer, onec, faults, odd, lost>>

\* 414 is not tried again: a balance is asked for in halves, a flat read ends.
UrlTooLong(r) ==
    LET parts == reader[r].parts
    IN  /\ reader[r].at = "read" /\ stage # "warehouses" /\ TooLong(r)
        /\ IF stage \in Balance /\ Len(Head(parts)) > 1
           THEN /\ Set(r, [reader[r] EXCEPT !.parts = Halves(Head(parts)) \o Tail(parts),
                                            !.attempt = 1])
                /\ UNCHANGED lost
           ELSE GiveUp(r, "url")
        /\ UNCHANGED <<stage, skus, keys, next, out, pulled, answer, onec, faults, odd>>

\* A document without rows ends the part like an empty page; text that is not
\* JSON does so in a balance, and is an exception in a flat read.
AnswerOdd(r) ==
    /\ reader[r].at = "read" /\ odd < MaxOdd
    /\ odd' = odd + 1
    /\ \/ GiveUp(r, "odd")
       \/ stage \in Flat /\ Set(r, [Rest EXCEPT !.at = "thrown"]) /\ UNCHANGED lost
    /\ UNCHANGED <<stage, skus, keys, next, out, pulled, answer, onec, faults>>

\* The rows of a chunk join those of the others.
Push(r) ==
    /\ reader[r].at = "push"
    /\ out' = out \o reader[r].local
    /\ Set(r, [Rest EXCEPT !.at = "take"])
    /\ UNCHANGED <<stage, skus, keys, next, pulled, answer, onec, faults, odd, lost>>

---------------------------------------------------------------------------
(* Ka2Inventory::pull, once the threads of a read have ended.              *)

\* Mutant: an analytic key is kept as often as it was read.
Repeated(rows) == rows

\* read_analytics keeps the first row of an analytic key.
Unique(rows) ==
    Pick(rows, {i \in DOMAIN rows : \A j \in 1 .. i - 1 : rows[j].val.ref # rows[i].val.ref})

Refs(rows) == [i \in DOMAIN rows |-> rows[i].val.ref]

Ended(s) == \A r \in Team(s) : reader[r].at \in {"ended", "thrown"}
Threw(s) == \E r \in Team(s) : reader[r].at = "thrown"
Result(rows) == pulled' = [pulled EXCEPT ![stage] = rows]

Reading(s) == stage = s /\ Ended(s) /\ ~Threw(s)
JoinFrame == UNCHANGED <<skus, answer, onec, faults, odd, lost>>

JoinWarehouses ==
    Reading("warehouses") /\ Result(out) /\ StartRead("analytics", skus) /\ JoinFrame

\* Without analytic keys the costs are not asked for.
JoinAnalytics ==
    LET found == Unique(out)
    IN  /\ Reading("analytics") /\ Result(found)
        /\ IF found # <<>> THEN StartRead("costs", Refs(found)) ELSE StartRead("stocks", skus)
        /\ JoinFrame

JoinCosts == Reading("costs") /\ Result(out) /\ StartRead("stocks", skus) /\ JoinFrame

JoinStocks == Reading("stocks") /\ Result(out) /\ StartRead("suppliers", skus) /\ JoinFrame

\* The rows as a set, for the operators of Snapshot.
Rows(s, p) == {p[s][i].val : i \in DOMAIN p[s]}
PulledRows(p) ==
    [warehouses |-> Rows("warehouses", p), analytics |-> Rows("analytics", p),
     costs |-> Rows("costs", p), stocks |-> Rows("stocks", p), suppliers |-> Rows("suppliers", p)]

\* The last read is over: the handler builds the preview, of all warehouses.
JoinSuppliers ==
    /\ Reading("suppliers") /\ Result(out)
    /\ stage' = "answered"
    /\ \E all \in {PulledRows([pulled EXCEPT !["suppliers"] = out])} :
         \E rows \in {PullToSnapshot(all, {})} : answer' = BuildPreview(rows)
    /\ keys' = <<>> /\ next' = 1 /\ out' = <<>>
    /\ UNCHANGED <<skus, reader, onec, faults, odd, lost>>

\* An exception of a thread is passed on when all of them have ended.
JoinThrown ==
    /\ stage \in Stages /\ Ended(stage) /\ Threw(stage)
    /\ stage' = "thrown" /\ pulled' = [s \in Stages |-> <<>>]
    /\ keys' = <<>> /\ next' = 1 /\ out' = <<>>
    /\ reader' = [r \in Workers \cup {Main} |-> Rest]
    /\ UNCHANGED <<skus, answer, onec, faults, odd, lost>>

---------------------------------------------------------------------------
\* 1C is worked with: a row comes up, or the first one of a read goes.
OnecChanges ==
    /\ stage \in Stages /\ changes < MaxChanges /\ changes' = changes + 1
    /\ \/ \E s \in DOMAIN Newcomers :
            /\ \A i \in DOMAIN book[s] : book[s][i] # Newcomers[s]
            /\ book' = [book EXCEPT ![s] = <<Newcomers[s]>> \o @]
       \/ \E s \in DOMAIN Newcomers : book[s] # <<>> /\ book' = [book EXCEPT ![s] = Tail(@)]
    /\ UNCHANGED <<stage, skus, keys, next, reader, out, pulled, answer, limit, faults, odd, lost>>

Step(r) == Take(r) \/ Receive(r) \/ Fail(r) \/ UrlTooLong(r) \/ AnswerOdd(r) \/ Push(r)

Join == JoinWarehouses \/ JoinAnalytics \/ JoinCosts \/ JoinStocks \/ JoinSuppliers \/ JoinThrown

Next == Ask \/ Join \/ OnecChanges \/ \E r \in Workers \cup {Main} : Step(r)

\* The threads are scheduled, and a request to 1C ends, by its time limit if
\* by nothing else.
Fairness == WF_vars(Ask) /\ WF_vars(Join) /\ \A r \in Workers \cup {Main} : WF_vars(Step(r))

Spec == Init /\ [][Next]_vars /\ Fairness

---------------------------------------------------------------------------
TypeOK ==
    /\ stage \in Stages \cup Endings \cup {"start"}
    /\ next \in Nat \ {0}
    /\ \A r \in Workers \cup {Main} :
         /\ reader[r].at \in Places
         /\ reader[r].skip \in Nat /\ reader[r].attempt \in 1 .. MaxRetries
         /\ reader[r].at = "read" <=> reader[r].parts # <<>>
    /\ limit \in UrlLimits
    /\ faults \in 0 .. MaxFaults /\ odd \in 0 .. MaxOdd /\ changes \in 0 .. MaxChanges
    /\ \A s \in Stages : \A x \in lost[s] : x[2] \in Reasons

\* No row of a balance and no analytic key is in the result twice, however
\* the threads share the chunks, halve them and try again, and whatever is
\* edited in 1C meanwhile: the costs of a SKU are added up, and a stock that
\* came twice would be refused by the unique key of its table.  The prices of
\* the suppliers are repeated only where 1C was edited between two pages.
Once(rows) == Distinct([i \in DOMAIN rows |-> rows[i].val])
NothingTwice ==
    /\ \A s \in Balance \cup {"analytics"} : Once(pulled[s])
    /\ stage \in Balance => Once(out)
    /\ changes = 0 => Once(pulled["suppliers"]) /\ Once(pulled["warehouses"])

\* What an answered request has not read, it has given up: for a page that
\* failed max_retries times, an odd answer, the URL of a flat read, or the
\* rows of a balance beyond its one page.
KeysOfRead(s) ==
    CASE s = "warehouses" -> AllKeys
      [] s = "costs" -> Refs(pulled["analytics"])
      [] OTHER -> skus
AllRead ==
    \A s \in Stages : \A i \in DOMAIN book[s] :
        LET row == book[s][i]
        IN  row.good /\ HasKey(KeysOfRead(s), row.key)
              => \/ \E why \in Reasons : <<row.key, why>> \in lost[s]
                 \/ row.val \in Rows(s, pulled)
Explained ==
    \A s \in Stages : \A x \in lost[s] :
        /\ x[2] = "retries" => faults >= MaxRetries
        /\ x[2] = "odd" => odd > 0
        /\ x[2] = "url" => s \in Flat
        /\ x[2] = "top" => s \in Balance

\* A SKU whose stocks were read and whose costs were lost, with no price of a
\* supplier in their place, is counted in a warning; and the other way round.
Shown ==
    \E all \in {PulledRows(pulled)} : \E rows \in {PullToSnapshot(all, {})} :
        LET bare == StockSkus(rows) \ CostedSkus(all)
        IN  /\ bare # {} => \E w \in answer.warnings :
                               w.what = "no_cost" /\ w.count >= Cardinality(bare)
            /\ StockSkus(rows) = {} => \E w \in answer.warnings : w.what \in {"empty", "no_stock"}
LossIsExplained == stage = "answered" => Shown /\ (changes = 0 => AllRead /\ Explained)

\* Every request ends, whatever fails: the attempts, the halves and the pages
\* come to an end, and no thread of a team is left out of the join.
PullEnds == <>(stage \in Endings)
=============================================================================
