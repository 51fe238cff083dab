------------------------ MODULE AgentRequestsProofs ------------------------
(***************************************************************************)
(* Theorems about AgentRequests for any number of sessions and requests.   *)
(*                                                                         *)
(* None of the invariants the runs check is inductive alone.  A run that   *)
(* deletes its key must not delete another run's: for that, a cancelled    *)
(* and an uncancelled run may only be alive together in a raced session    *)
(* (CancelledRunLeftAlone).  A stored row is exact because at most one     *)
(* writer holds it, and holds the stored value (RowHeldOnce).              *)
(***************************************************************************)
EXTENDS AgentRequests, TLAPS

\* A goroutine has a session, and the title goroutine and the row in hand
\* belong to one that was started.
Owned ==
  /\ \A r \in Requests : pc[r] # "idle" => owner[r] \in Sessions
  /\ \A r \in titling : pc[r] # "idle"
  /\ \A w \in Writers : HoldsRow(w) => pc[w[1]] # "idle"

\* Outside raced, no run that was cancelled lives beside one that was not.
CancelledRunLeftAlone ==
  \A q, r \in Runs :
    /\ Live(q) /\ q \in cancelled
    /\ Live(r) /\ r \notin cancelled
    /\ owner[q] = owner[r]
    => owner[r] \in raced

\* Outside overlapped, a row has one writer at most, who holds what is stored.
RowHeldOnce ==
  \A s \in Sessions \ overlapped : \A w \in Writers :
    HoldsRow(w) /\ SessionOf(w) = s =>
      /\ held[w] = row[s]
      /\ \A v \in Writers : HoldsRow(v) /\ SessionOf(v) = s => v = w

TypeInv == TypeOK /\ Owned

SlotInv == SlotHeldByLiveRequest /\ UncancelledRunHoldsSlot /\ CancelledRunLeftAlone

RowInv == RowExact /\ RowHeldOnce

---------------------------------------------------------------------------
(* Rows and writers *)

\* A writer's edit of a row is a row.
LEMMA EditedType ==
  ASSUME NEW w \in Writers, NEW r \in Rows
  PROVE  Edited(w, r) \in Rows
<1>1. CASE w[2] = "title"
  <2>1. w[1] \notin Summaries
    BY <1>1, RequestsAssumption DEF Writers, Requests
  <2>2. Edited(w, r) = [r EXCEPT !.title = TRUE]
    BY <1>1, <2>1 DEF Edited
  <2>3. QED BY <2>2 DEF Rows
<1>2. CASE w[2] # "title" /\ w[1] \in Summaries
  <2>1. Edited(w, r) = [r EXCEPT !.summary = w[1], !.cost = @ + 1]
    BY <1>2 DEF Edited
  <2>2. r.cost + 1 \in Nat
    BY DEF Rows
  <2>3. QED BY <1>2, <2>1, <2>2 DEF Rows
<1>3. CASE w[2] # "title" /\ w[1] \notin Summaries
  <2>1. Edited(w, r) = [r EXCEPT !.cost = @ + 1]
    BY <1>3 DEF Edited
  <2>2. QED BY <2>1 DEF Rows
<1>4. QED BY <1>1, <1>2, <1>3

\* The goroutines that hold rows are those of requests.
LEMMA WriterFacts ==
  /\ \A r \in Requests : Self(r) \in Writers /\ Self(r)[1] = r
  /\ \A r \in Runs : Title(r) \in Writers /\ Title(r)[1] = r
  /\ \A w \in Writers : w[1] \in Requests
BY DEF Writers, Self, Title, Requests

---------------------------------------------------------------------------
(* Type correctness *)

\* Reading a row into a writer's hand keeps the types.
LEMMA GetType ==
  ASSUME TypeOK, NEW w \in Writers, owner[w[1]] \in Sessions, Get(w)
  PROVE  /\ held' \in [Writers -> Rows \cup {NoRow}]
         /\ row' \in [Sessions -> Rows] /\ ideal' \in [Sessions -> Rows]
         /\ overlapped' \subseteq Sessions
         /\ \A v \in Writers : (held[v] # NoRow)' => v = w \/ HoldsRow(v)
<1>1. row[SessionOf(w)] \in Rows
  BY DEF TypeOK, SessionOf
<1>2. QED BY <1>1 DEF TypeOK, Get, SessionOf, HoldsRow

\* So does saving it ...
LEMMA SaveType ==
  ASSUME TypeOK, NEW w \in Writers, owner[w[1]] \in Sessions, HoldsRow(w), Save(w)
  PROVE  /\ held' \in [Writers -> Rows \cup {NoRow}]
         /\ row' \in [Sessions -> Rows] /\ ideal' \in [Sessions -> Rows]
         /\ overlapped' \subseteq Sessions
         /\ \A v \in Writers : (held[v] # NoRow)' => HoldsRow(v)
<1>1. held[w] \in Rows
  BY DEF TypeOK, HoldsRow
<1>2. SessionOf(w) \in Sessions
  BY DEF SessionOf
<1>3. Edited(w, held[w]) \in Rows /\ Edited(w, ideal[SessionOf(w)]) \in Rows
  BY <1>1, <1>2, EditedType DEF TypeOK
<1>4. QED BY <1>2, <1>3 DEF TypeOK, Save, HoldsRow

\* ... and dropping it.
LEMMA DropType ==
  ASSUME TypeOK, NEW w \in Writers, Drop(w)
  PROVE  /\ held' \in [Writers -> Rows \cup {NoRow}]
         /\ row' \in [Sessions -> Rows] /\ ideal' \in [Sessions -> Rows]
         /\ overlapped' \subseteq Sessions
         /\ \A v \in Writers : (held[v] # NoRow)' => HoldsRow(v)
BY DEF TypeOK, Drop, HoldsRow

\* The initial state has the types.
LEMMA TypeInit == Init => TypeInv
BY RequestsAssumption DEF Init, TypeInv, TypeOK, Owned, HoldsRow, Rows, Keys, Requests

\* Every step keeps the types and the owners.
LEMMA TypeStep == TypeInv /\ [Next]_vars => TypeInv'
<1> SUFFICES ASSUME TypeInv, [Next]_vars PROVE TypeInv'
  OBVIOUS
<1> USE WriterFacts, RequestsAssumption DEF TypeInv, Requests
<1>1. ASSUME NEW s \in Sessions, Cancel(s) PROVE TypeInv'
  BY <1>1 DEF Cancel, TypeOK, Owned, HoldsRow, Keys, rows
<1>2. ASSUME NEW r \in Runs, NEW s \in Sessions, Run(r, s) PROVE TypeInv'
  BY <1>2 DEF Run, TypeOK, Owned, HoldsRow, Keys, rows, RunStates
<1>3. CASE Update
  BY <1>3 DEF Update, TypeOK, Owned, HoldsRow, table, rows
<1>4. ASSUME NEW r \in Runs, ListMessages(r) PROVE TypeInv'
  BY <1>4 DEF ListMessages, Goto, TypeOK, Owned, HoldsRow, rows, RunStates
<1>5. ASSUME NEW r \in Runs, CreateUserMessage(r) PROVE TypeInv'
  BY <1>5 DEF CreateUserMessage, Goto, TypeOK, Owned, HoldsRow, rows, RunStates
<1>6. ASSUME NEW r \in Runs, UsageGet(r) PROVE TypeInv'
  <2>1. owner[r] \in Sessions
    BY <1>6 DEF UsageGet, Owned
  <2>2. QED BY <1>6, <2>1, GetType DEF UsageGet, TypeOK, Owned, HoldsRow, table
<1>7. ASSUME NEW r \in Runs, UsageSave(r) PROVE TypeInv'
  <2>1. owner[r] \in Sessions
    BY <1>7 DEF UsageSave, Owned
  <2>2. QED BY <1>7, <2>1, SaveType DEF UsageSave, TypeOK, Owned, HoldsRow, table
<1>8. ASSUME NEW r \in Runs, UsageSaveFails(r) PROVE TypeInv'
  BY <1>8, DropType DEF UsageSaveFails, Goto, TypeOK, Owned, HoldsRow, RunStates
<1>9. ASSUME NEW r \in Runs, CallOut(r) \/ CallBack(r) \/ Return(r) PROVE TypeInv'
  BY <1>9 DEF CallOut, CallBack, Return, Goto, TypeOK, Owned, HoldsRow, rows, RunStates, Working
<1>10. ASSUME NEW r \in Runs, PublishResult(r) PROVE TypeInv'
  BY <1>10 DEF PublishResult, Goto, TypeOK, Owned, HoldsRow, rows, RunStates
<1>11. ASSUME NEW r \in Runs, Panic(r) PROVE TypeInv'
  BY <1>11, DropType DEF Panic, Goto, TypeOK, Owned, HoldsRow, RunStates, Working
<1>12. ASSUME NEW r \in Runs, TitleGet(r) PROVE TypeInv'
  <2>1. owner[r] \in Sessions
    BY <1>12 DEF TitleGet, Owned
  <2>2. QED BY <1>12, <2>1, GetType DEF TitleGet, TypeOK, Owned, HoldsRow, table
<1>13. ASSUME NEW r \in Runs, TitleSave(r) PROVE TypeInv'
  <2>1. owner[r] \in Sessions
    BY <1>13 DEF TitleSave, Owned
  <2>2. QED BY <1>13, <2>1, SaveType DEF TitleSave, TypeOK, Owned, HoldsRow, table
<1>14. ASSUME NEW r \in Runs, TitleFails(r) PROVE TypeInv'
  BY <1>14, DropType DEF TitleFails, TypeOK, Owned, HoldsRow, table
<1>15. ASSUME NEW q \in Summaries, NEW s \in Sessions, SummarizeCheck(q, s) PROVE TypeInv'
  BY <1>15 DEF SummarizeCheck, Goto, TypeOK, Owned, HoldsRow, rows, SummarizeStates
<1>16. ASSUME NEW q \in Summaries, SummarizeStore(q) PROVE TypeInv'
  BY <1>16 DEF SummarizeStore, Goto, TypeOK, Owned, HoldsRow, rows, SummarizeStates
<1>17. ASSUME NEW q \in Summaries, SummaryGet(q) PROVE TypeInv'
  <2>1. owner[q] \in Sessions
    BY <1>17 DEF SummaryGet, Owned
  <2>2. QED BY <1>17, <2>1, GetType DEF SummaryGet, TypeOK, Owned, HoldsRow, table
<1>18. ASSUME NEW q \in Summaries, SummarySave(q) PROVE TypeInv'
  <2>1. owner[q] \in Sessions
    BY <1>18 DEF SummarySave, Owned
  <2>2. QED BY <1>18, <2>1, SaveType DEF SummarySave, TypeOK, Owned, HoldsRow, table
<1>19. ASSUME NEW q \in Summaries, SummarizeEnd(q) PROVE TypeInv'
  BY <1>19, DropType DEF SummarizeEnd, Goto, TypeOK, Owned, HoldsRow, SummarizeStates
<1>20. CASE UNCHANGED vars
  BY <1>20 DEF vars, table, rows, TypeOK, Owned, HoldsRow
<1>21. QED
  BY <1>1, <1>2, <1>3, <1>4, <1>5, <1>6, <1>7, <1>8, <1>9, <1>10, <1>11, <1>12, <1>13,
     <1>14, <1>15, <1>16, <1>17, <1>18, <1>19, <1>20
     DEF Next, RunStep, TitleStep, SummarizeStep

\* Every variable keeps its type, and every goroutine its session.
THEOREM TypeInvariant == Spec => []TypeInv
<1>1. QED BY TypeInit, TypeStep, PTL DEF Spec

\* The corollary for the invariant the run checks.
THEOREM TypeCorrect == Spec => []TypeOK
<1>1. TypeInv => TypeOK
  BY DEF TypeInv
<1>2. QED BY <1>1, TypeInvariant, PTL

---------------------------------------------------------------------------
(* The table of requests *)

\* Initially no request owns a key.
LEMMA SlotInit == Init => SlotInv
BY RequestsAssumption
   DEF Init, SlotInv, SlotHeldByLiveRequest, UncancelledRunHoldsSlot, CancelledRunLeftAlone,
       Live, Working, Requests

\* A step that keeps the table keeps what is said of it.
LEMMA SlotStutter == SlotInv /\ UNCHANGED table => SlotInv'
BY DEF SlotInv, SlotHeldByLiveRequest, UncancelledRunHoldsSlot, CancelledRunLeftAlone,
       Live, Working, KeyOf, table

\* So does a goroutine that moves on and stays alive, or was not and is not.
LEMMA SlotGoto ==
  ASSUME SlotInv, TypeInv, NEW r \in Requests, NEW l, Goto(r, l),
         l \in {"listed", "running", "calling", "returned"} /\ Live(r),
         UNCHANGED <<activeRequests, owner, cancelled, raced>>
  PROVE  SlotInv'
<1>1. \A q \in Requests : Live(q)' <=> Live(q)
  BY DEF TypeInv, TypeOK, Goto, Live, Working
<1>2. \A q \in Requests : q # r => pc'[q] = pc[q]
  BY DEF Goto, TypeInv, TypeOK
<1>3. \A q \in Requests : KeyOf(q)' = KeyOf(q)
  BY DEF KeyOf
<1>4. SlotHeldByLiveRequest'
  BY <1>1, <1>2, <1>3 DEF SlotInv, SlotHeldByLiveRequest, TypeInv, TypeOK
<1>5. UncancelledRunHoldsSlot'
  BY <1>1 DEF SlotInv, UncancelledRunHoldsSlot, Requests
<1>6. CancelledRunLeftAlone'
  BY <1>1 DEF SlotInv, CancelledRunLeftAlone, Requests
<1>7. QED BY <1>4, <1>5, <1>6 DEF SlotInv

\* The deletion by key at the end of a request hits nobody else's key.
LEMMA SlotDelete ==
  ASSUME SlotInv, TypeInv, NEW r \in Requests, NEW l, Live(r), Goto(r, l),
         l \in {"published", "finished"},
         activeRequests' = [activeRequests EXCEPT ![KeyOf(r)] = None],
         cancelled' = cancelled \cup {r},
         UNCHANGED <<owner, raced>>
  PROVE  SlotInv'
<1>1. /\ \A q \in Requests : Live(q)' <=> Live(q) /\ q # r
      /\ \A q \in Requests \ {r} : pc'[q] = pc[q]
  BY DEF TypeInv, TypeOK, Goto, Live, Working
<1>2. \A q \in Requests : KeyOf(q)' = KeyOf(q)
  BY DEF KeyOf
<1>3. SlotHeldByLiveRequest'
  <2>1. \A k \in Keys : activeRequests'[k] # None =>
          /\ k # KeyOf(r) /\ activeRequests'[k] = activeRequests[k]
          /\ activeRequests[k] \in Requests
    BY DEF TypeInv, TypeOK
  <2>2. \A k \in Keys : activeRequests'[k] # None => activeRequests[k] # r
    BY <2>1 DEF SlotInv, SlotHeldByLiveRequest
  <2>3. QED BY <1>1, <1>2, <2>1, <2>2 DEF SlotInv, SlotHeldByLiveRequest
<1>4. UncancelledRunHoldsSlot'
  <2> SUFFICES ASSUME NEW q \in Runs, Live(q)', q \notin cancelled', owner[q] \notin raced
               PROVE  activeRequests'[<<owner[q], "run">>] = q
    BY DEF UncancelledRunHoldsSlot
  <2>1. Live(q) /\ q # r /\ q \notin cancelled
    BY <1>1 DEF Requests
  <2>2. activeRequests[<<owner[q], "run">>] = q
    BY <2>1 DEF SlotInv, UncancelledRunHoldsSlot
  <2>3. KeyOf(r) # <<owner[q], "run">>
    <3> SUFFICES ASSUME KeyOf(r) = <<owner[q], "run">> PROVE FALSE
      OBVIOUS
    <3>1. r \in Runs /\ owner[r] = owner[q]
      BY DEF KeyOf, Kind
    <3>2. r \in cancelled
      BY <2>1, <2>2, <3>1 DEF SlotInv, UncancelledRunHoldsSlot
    <3>3. QED BY <2>1, <3>1, <3>2 DEF SlotInv, CancelledRunLeftAlone
  <2>4. QED BY <2>2, <2>3 DEF TypeInv, TypeOK
<1>5. CancelledRunLeftAlone'
  BY <1>1 DEF SlotInv, CancelledRunLeftAlone, Requests
<1>6. QED BY <1>3, <1>4, <1>5 DEF SlotInv

\* A new run takes the free key of its session.
LEMMA SlotRun ==
  ASSUME SlotInv, TypeInv, NEW r \in Runs, NEW s \in Sessions, Run(r, s)
  PROVE  SlotInv'
<1>1. /\ \A q \in Requests : Live(q)' <=> Live(q) \/ q = r
      /\ \A q \in Requests \ {r} : pc'[q] = pc[q] /\ owner'[q] = owner[q]
      /\ owner'[r] = s /\ ~Live(r) /\ pc[r] = "idle" /\ Live(r)'
  BY DEF TypeInv, TypeOK, Run, Live, Working, Requests
<1>2. /\ \A q \in Requests \ {r} : KeyOf(q)' = KeyOf(q)
      /\ KeyOf(r)' = <<s, "run">>
  BY <1>1 DEF KeyOf, Kind
<1>3. /\ activeRequests[<<s, "run">>] = None
      /\ \A k \in Keys : activeRequests'[k] = IF k = <<s, "run">> THEN r ELSE activeRequests[k]
  BY DEF Run, IsSessionBusy, TypeInv, TypeOK, Keys
<1>4. \A q \in Runs : Live(q) /\ owner[q] = s /\ q \notin cancelled => s \in raced
  BY <1>3, RequestsAssumption DEF SlotInv, UncancelledRunHoldsSlot, Requests
<1>5. /\ raced \subseteq raced' /\ cancelled' = cancelled
      /\ (\E q \in Runs : Live(q) /\ q \in cancelled /\ owner[q] = s) => s \in raced'
  BY DEF Run, rows
<1>6. SlotHeldByLiveRequest'
  BY <1>1, <1>2, <1>3, RequestsAssumption DEF SlotInv, SlotHeldByLiveRequest, TypeInv, TypeOK
<1>7. UncancelledRunHoldsSlot'
  <2> SUFFICES ASSUME NEW q \in Runs, Live(q)', q \notin cancelled, owner'[q] \notin raced'
               PROVE  activeRequests'[<<owner'[q], "run">>] = q
    BY <1>5 DEF UncancelledRunHoldsSlot
  <2>1. CASE q = r
    BY <1>1, <1>3, <2>1 DEF Keys
  <2>2. CASE q # r
    <3>1. Live(q) /\ owner'[q] = owner[q] /\ owner[q] \notin raced
      BY <1>1, <1>5, <2>2 DEF Requests
    <3>2. owner[q] # s /\ activeRequests[<<owner[q], "run">>] = q
      BY <1>4, <3>1 DEF SlotInv, UncancelledRunHoldsSlot
    <3>3. owner[q] \in Sessions
      BY <3>1 DEF TypeInv, Owned, Live, Working, Requests
    <3>4. QED BY <1>3, <3>1, <3>2, <3>3 DEF Keys
  <2>3. QED BY <2>1, <2>2
<1>8. CancelledRunLeftAlone'
  <2> SUFFICES ASSUME NEW p \in Runs, NEW q \in Runs, Live(p)', p \in cancelled,
                      Live(q)', q \notin cancelled, owner'[p] = owner'[q]
               PROVE  owner'[q] \in raced'
    BY <1>5 DEF CancelledRunLeftAlone
  <2>1. CASE p # r /\ q # r
    BY <1>1, <1>5, <2>1 DEF SlotInv, CancelledRunLeftAlone, Requests
  <2>2. CASE q = r
    BY <1>1, <1>5, <2>2 DEF Requests
  <2>3. CASE p = r /\ q # r
    BY <1>1, <1>4, <1>5, <2>3 DEF Requests
  <2>4. QED BY <2>1, <2>2, <2>3
<1>9. QED BY <1>6, <1>7, <1>8 DEF SlotInv

\* Cancel takes both keys and cancels whoever owned them.
LEMMA SlotCancel ==
  ASSUME SlotInv, TypeInv, NEW s \in Sessions, Cancel(s)
  PROVE  SlotInv'
<1>1. \A k \in Keys : activeRequests'[k] = IF k[1] = s THEN None ELSE activeRequests[k]
  BY DEF Cancel, Keys
<1>2. /\ UNCHANGED <<pc, owner, raced>>
      /\ cancelled \subseteq cancelled'
      /\ \A q \in cancelled' : q \in cancelled \/ \E k \in Keys : k[1] = s /\ activeRequests[k] = q /\ q # None
      /\ \A k \in Keys : k[1] = s /\ activeRequests[k] # None => activeRequests[k] \in cancelled'
  BY DEF Cancel, Keys
<1>3. \A q : (Live(q)' <=> Live(q)) /\ KeyOf(q)' = KeyOf(q)
  BY <1>2 DEF Live, Working, KeyOf
<1>4. \A q \in Runs : Live(q) => owner[q] \in Sessions /\ <<owner[q], "run">> \in Keys
  BY DEF TypeInv, Owned, Live, Working, Requests, Keys
<1>5. SlotHeldByLiveRequest'
  BY <1>1, <1>2, <1>3 DEF SlotInv, SlotHeldByLiveRequest
<1>6. UncancelledRunHoldsSlot'
  <2> SUFFICES ASSUME NEW q \in Runs, Live(q), q \notin cancelled', owner[q] \notin raced
               PROVE  activeRequests'[<<owner[q], "run">>] = q
    BY <1>2, <1>3 DEF UncancelledRunHoldsSlot
  <2>1. activeRequests[<<owner[q], "run">>] = q
    BY <1>2 DEF SlotInv, UncancelledRunHoldsSlot
  <2>2. owner[q] # s
    BY <1>2, <1>4, <2>1, RequestsAssumption DEF Requests
  <2>3. QED BY <1>1, <1>4, <2>1, <2>2
<1>7. CancelledRunLeftAlone'
  <2> SUFFICES ASSUME NEW p \in Runs, NEW q \in Runs, Live(p), p \in cancelled',
                      Live(q), q \notin cancelled', owner[p] = owner[q], owner[q] \notin raced
               PROVE  FALSE
    BY <1>2, <1>3 DEF CancelledRunLeftAlone
  <2>1. p \notin cancelled
    BY <1>2 DEF SlotInv, CancelledRunLeftAlone
  <2>2. activeRequests[<<owner[q], "run">>] = p /\ activeRequests[<<owner[q], "run">>] = q
    BY <1>2, <2>1 DEF SlotInv, UncancelledRunHoldsSlot
  <2>3. QED BY <2>2
<1>8. QED BY <1>5, <1>6, <1>7 DEF SlotInv

\* A panic leaves the key behind, and nothing else changes its owner.
LEMMA SlotPanic ==
  ASSUME SlotInv, TypeInv, NEW r \in Runs, Panic(r)
  PROVE  SlotInv'
<1>1. /\ \A q \in Requests : Live(q)' <=> Live(q) /\ q # r
      /\ \A q \in Requests \ {r} : pc'[q] = pc[q]
      /\ pc'[r] = "panicked"
  BY DEF TypeInv, TypeOK, Panic, Goto, Live, Working, Requests
<1>2. UNCHANGED <<activeRequests, owner, cancelled, raced>> /\ \A q : KeyOf(q)' = KeyOf(q)
  BY DEF Panic, KeyOf
<1>3. QED
  BY <1>1, <1>2
     DEF SlotInv, SlotHeldByLiveRequest, UncancelledRunHoldsSlot, CancelledRunLeftAlone,
         TypeInv, TypeOK, Requests

\* Summarize owns only the summarize key.
LEMMA SlotSummarize ==
  ASSUME SlotInv, TypeInv, NEW q \in Summaries,
         (\E s \in Sessions : SummarizeCheck(q, s)) \/ SummarizeStore(q)
  PROVE  SlotInv'
<1>1. /\ \A r \in Requests \ {q} : pc'[r] = pc[r] /\ owner'[r] = owner[r] /\ KeyOf(r)' = KeyOf(r)
      /\ UNCHANGED <<cancelled, raced>>
      /\ ~Live(q) /\ q \notin Runs /\ pc[q] # "panicked"
  BY RequestsAssumption
     DEF SummarizeCheck, SummarizeStore, Goto, KeyOf, TypeInv, TypeOK, Requests, Live, Working
<1>2. \A r \in Requests \ {q} : Live(r)' <=> Live(r)
  BY <1>1 DEF Live, Working
<1>3. \A k \in Keys : activeRequests[k] # q
  BY <1>1, RequestsAssumption DEF SlotInv, SlotHeldByLiveRequest, Requests
<1>4. \/ UNCHANGED activeRequests
      \/ /\ activeRequests' = [activeRequests EXCEPT ![KeyOf(q)] = q]
         /\ KeyOf(q)' = KeyOf(q) /\ Live(q)'
  BY DEF SummarizeCheck, SummarizeStore, Goto, KeyOf, Live, Working, TypeInv, TypeOK, Requests
<1>5. SlotHeldByLiveRequest'
  BY <1>1, <1>2, <1>3, <1>4 DEF SlotInv, SlotHeldByLiveRequest, TypeInv, TypeOK
<1>6. KeyOf(q)[2] = "summarize"
  BY <1>1 DEF KeyOf, Kind
<1>7. UncancelledRunHoldsSlot'
  <2> SUFFICES ASSUME NEW r \in Runs, Live(r), r \notin cancelled, owner[r] \notin raced
               PROVE  activeRequests'[<<owner[r], "run">>] = r
    BY <1>1, <1>2 DEF UncancelledRunHoldsSlot, Requests
  <2>1. activeRequests[<<owner[r], "run">>] = r
    BY DEF SlotInv, UncancelledRunHoldsSlot
  <2>2. <<owner[r], "run">> # KeyOf(q)
    BY <1>6
  <2>3. <<owner[r], "run">> \in Keys
    BY DEF TypeInv, Owned, Live, Working, Requests, Keys
  <2>4. QED BY <1>4, <2>1, <2>2, <2>3 DEF TypeInv, TypeOK
<1>8. CancelledRunLeftAlone'
  BY <1>1, <1>2 DEF SlotInv, CancelledRunLeftAlone, Requests
<1>9. QED BY <1>5, <1>7, <1>8 DEF SlotInv

\* Every step keeps the table in order.
LEMMA SlotStep == TypeInv /\ SlotInv /\ [Next]_vars => SlotInv'
<1> SUFFICES ASSUME TypeInv, SlotInv, [Next]_vars PROVE SlotInv'
  OBVIOUS
<1> USE DEF Requests
<1>1. ASSUME NEW s \in Sessions, Cancel(s) PROVE SlotInv'
  BY <1>1, SlotCancel
<1>2. ASSUME NEW r \in Runs, NEW s \in Sessions, Run(r, s) PROVE SlotInv'
  BY <1>2, SlotRun
<1>3. CASE Update
  BY <1>3, SlotStutter DEF Update
<1>4. ASSUME NEW r \in Runs, ListMessages(r) PROVE SlotInv'
  BY <1>4, SlotGoto DEF ListMessages, Live, Working
<1>5. ASSUME NEW r \in Runs, CreateUserMessage(r) PROVE SlotInv'
  BY <1>5, SlotGoto DEF CreateUserMessage, Live, Working
<1>6. ASSUME NEW r \in Runs, UsageGet(r) \/ UsageSave(r) PROVE SlotInv'
  BY <1>6, SlotStutter DEF UsageGet, UsageSave
<1>7. ASSUME NEW r \in Runs, UsageSaveFails(r) PROVE SlotInv'
  BY <1>7, SlotGoto DEF UsageSaveFails, Live, Working
<1>8. ASSUME NEW r \in Runs, CallOut(r) \/ CallBack(r) \/ Return(r) PROVE SlotInv'
  BY <1>8, SlotGoto DEF CallOut, CallBack, Return, Live, Working
<1>9. ASSUME NEW r \in Runs, PublishResult(r) PROVE SlotInv'
  BY <1>9, SlotDelete DEF PublishResult, Live
<1>10. ASSUME NEW r \in Runs, Panic(r) PROVE SlotInv'
  BY <1>10, SlotPanic
<1>11. ASSUME NEW r \in Runs, TitleStep(r) PROVE SlotInv'
  BY <1>11, SlotStutter DEF TitleStep, TitleGet, TitleSave, TitleFails
<1>12. ASSUME NEW q \in Summaries, NEW s \in Sessions, SummarizeCheck(q, s) PROVE SlotInv'
  BY <1>12, SlotSummarize
<1>13. ASSUME NEW q \in Summaries, SummarizeStore(q) PROVE SlotInv'
  BY <1>13, SlotSummarize
<1>14. ASSUME NEW q \in Summaries, SummaryGet(q) \/ SummarySave(q) PROVE SlotInv'
  BY <1>14, SlotStutter DEF SummaryGet, SummarySave
<1>15. ASSUME NEW q \in Summaries, SummarizeEnd(q) PROVE SlotInv'
  BY <1>15, SlotDelete DEF SummarizeEnd, Live, Working
<1>16. CASE UNCHANGED vars
  BY <1>16, SlotStutter DEF vars
<1>17. QED
  BY <1>1, <1>2, <1>3, <1>4, <1>5, <1>6, <1>7, <1>8, <1>9, <1>10, <1>11, <1>12, <1>13,
     <1>14, <1>15, <1>16 DEF Next, RunStep, SummarizeStep

\* The table invariant, and with it the property it rests on: outside raced, a
\* cancelled run and an uncancelled one are never alive together.
THEOREM TableInvariant == Spec => []SlotInv
<1>1. TypeInv /\ SlotInv /\ [Next]_vars => (TypeInv /\ SlotInv)'
  BY TypeStep, SlotStep
<1>2. QED BY TypeInit, SlotInit, <1>1, PTL DEF Spec

\* A key always points to a request of its session that is not over.
THEOREM SlotsAreLive == Spec => []SlotHeldByLiveRequest
<1>1. SlotInv => SlotHeldByLiveRequest
  BY DEF SlotInv
<1>2. QED BY <1>1, TableInvariant, PTL

\* A run that works uncancelled owns its session's key, so Cancel reaches it.
THEOREM RunsHoldSlots == Spec => []UncancelledRunHoldsSlot
<1>1. SlotInv => UncancelledRunHoldsSlot
  BY DEF SlotInv
<1>2. QED BY <1>1, TableInvariant, PTL

\* Two runs are never at work on one session, unless one was cancelled first.
OneRunPerSession ==
  \A q, r \in Runs :
    /\ Live(q) /\ q \notin cancelled
    /\ Live(r) /\ r \notin cancelled
    /\ owner[q] = owner[r] /\ owner[r] \notin raced
    => q = r

\* The busy check of Run admits one uncancelled run per session.
THEOREM ExclusiveRuns == Spec => []OneRunPerSession
<1>1. UncancelledRunHoldsSlot => OneRunPerSession
  BY DEF UncancelledRunHoldsSlot, OneRunPerSession
<1>2. QED BY <1>1, RunsHoldSlots, PTL

\* The model changes only while every run is cancelled, over or orphaned.
THEOREM ModelStable == Spec => NoModelChangeUnderRun
<1>1. TypeInv /\ SlotInv /\ [Next]_vars =>
        [model' # model =>
           \A r \in Runs : Working(r) /\ owner[r] \notin raced => r \in cancelled]_vars
  <2> SUFFICES ASSUME TypeInv, SlotInv, [Next]_vars, model' # model,
                      NEW r \in Runs, Working(r), owner[r] \notin raced, r \notin cancelled
               PROVE  FALSE
    OBVIOUS
  <2>1. Update
    BY DEF Next, vars, Cancel, Run, SummarizeCheck, RunStep, TitleStep, Panic, SummarizeStep,
           ListMessages, CreateUserMessage, UsageGet, UsageSave, UsageSaveFails, CallOut,
           CallBack, Return, PublishResult, TitleGet, TitleSave, TitleFails, SummarizeStore, SummaryGet,
           SummarySave, SummarizeEnd
  <2>2. activeRequests[<<owner[r], "run">>] = r
    BY DEF SlotInv, UncancelledRunHoldsSlot, Live
  <2>3. <<owner[r], "run">> \in Keys
    BY DEF TypeInv, Owned, Working, Requests, Keys
  <2>4. QED BY <2>1, <2>2, <2>3, RequestsAssumption DEF Update, IsBusy, Requests
<1>2. QED BY <1>1, TypeInvariant, TableInvariant, PTL DEF Spec, NoModelChangeUnderRun

---------------------------------------------------------------------------
(* The session row *)

\* Initially nobody holds a row.
LEMMA RowInit == Init => RowInv
BY DEF Init, RowInv, RowExact, RowHeldOnce, HoldsRow

\* A step that keeps the rows, and the owner of every writer that holds one,
\* keeps what is said of them.
LEMMA RowStutter ==
  ASSUME RowInv, UNCHANGED <<row, held, ideal, overlapped>>,
         \A w \in Writers : HoldsRow(w) => owner'[w[1]] = owner[w[1]]
  PROVE  RowInv'
BY DEF RowInv, RowExact, RowHeldOnce, HoldsRow, SessionOf

\* Reading: the reader is alone, or the session is overlapped from now on.
LEMMA RowGet ==
  ASSUME TypeInv, RowInv, NEW w \in Writers, Get(w), UNCHANGED owner,
         owner[w[1]] \in Sessions
  PROVE  RowInv'
<1>1. /\ \A v \in Writers : held'[v] = IF v = w THEN row[SessionOf(w)] ELSE held[v]
      /\ \A v \in Writers : SessionOf(v)' = SessionOf(v)
      /\ UNCHANGED <<row, ideal>>
      /\ overlapped \subseteq overlapped'
  BY DEF Get, TypeInv, TypeOK, SessionOf
<1>2. ASSUME NEW v \in Writers, v # w, HoldsRow(v), SessionOf(v) = SessionOf(w)
      PROVE  SessionOf(w) \in overlapped'
  BY <1>2 DEF Get
<1>3. \A v \in Writers \ {w} : HoldsRow(v)' <=> HoldsRow(v)
  BY <1>1 DEF HoldsRow
<1>4. RowExact'
  BY <1>1 DEF RowInv, RowExact
<1>5. RowHeldOnce'
  <2> SUFFICES ASSUME NEW s \in Sessions, s \notin overlapped',
                      NEW v \in Writers, HoldsRow(v)', SessionOf(v) = s
               PROVE  /\ held'[v] = row[s]
                      /\ \A u \in Writers : HoldsRow(u)' /\ SessionOf(u) = s => u = v
    BY <1>1 DEF RowHeldOnce
  <2>1. CASE v = w
    BY <1>1, <1>2, <1>3, <2>1
  <2>2. CASE v # w
    <3>1. HoldsRow(v) /\ SessionOf(w) # s
      BY <1>2, <1>3, <2>2
    <3>2. QED BY <1>1, <1>3, <2>2, <3>1 DEF RowInv, RowHeldOnce
  <2>3. QED BY <2>1, <2>2
<1>6. QED BY <1>4, <1>5 DEF RowInv

\* Saving: the one holder writes its edit of the stored row.
LEMMA RowSave ==
  ASSUME TypeInv, RowInv, NEW w \in Writers, HoldsRow(w), Save(w), UNCHANGED owner,
         owner[w[1]] \in Sessions
  PROVE  RowInv'
<1> DEFINE t == SessionOf(w)
<1>1. /\ \A v \in Writers : held'[v] = IF v = w THEN NoRow ELSE held[v]
      /\ \A v \in Writers : SessionOf(v)' = SessionOf(v)
      /\ \A s \in Sessions : row'[s] = IF s = t THEN Edited(w, held[w]) ELSE row[s]
      /\ \A s \in Sessions : ideal'[s] = IF s = t THEN Edited(w, ideal[t]) ELSE ideal[s]
      /\ UNCHANGED overlapped
  BY DEF Save, TypeInv, TypeOK, SessionOf
<1>2. t \in Sessions
  BY DEF SessionOf
<1>3. t \notin overlapped => held[w] = row[t] /\ row[t] = ideal[t]
  BY <1>2 DEF RowInv, RowHeldOnce, RowExact
<1>4. RowExact'
  <2> SUFFICES ASSUME NEW s \in Sessions, s \notin overlapped PROVE row'[s] = ideal'[s]
    BY <1>1 DEF RowExact
  <2>1. CASE s = t
    BY <1>1, <1>3, <2>1
  <2>2. CASE s # t
    BY <1>1, <2>2 DEF RowInv, RowExact
  <2>3. QED BY <2>1, <2>2
<1>5. RowHeldOnce'
  <2> SUFFICES ASSUME NEW s \in Sessions, s \notin overlapped,
                      NEW v \in Writers, held'[v] # NoRow, SessionOf(v) = s
               PROVE  /\ held'[v] = row'[s]
                      /\ \A u \in Writers : held'[u] # NoRow /\ SessionOf(u) = s => u = v
    BY <1>1 DEF RowHeldOnce, HoldsRow
  <2>1. v # w /\ HoldsRow(v)
    BY <1>1 DEF HoldsRow
  <2>2. s # t
    BY <2>1 DEF RowInv, RowHeldOnce
  <2>3. \A u \in Writers : held'[u] # NoRow => HoldsRow(u)
    BY <1>1 DEF HoldsRow
  <2>4. QED BY <1>1, <2>1, <2>2, <2>3 DEF RowInv, RowHeldOnce
<1>6. QED BY <1>4, <1>5 DEF RowInv

\* Dropping: nothing is written.
LEMMA RowDrop ==
  ASSUME TypeInv, RowInv, NEW w \in Writers, Drop(w), UNCHANGED owner
  PROVE  RowInv'
<1>1. /\ \A v \in Writers : held'[v] = IF v = w THEN NoRow ELSE held[v]
      /\ \A v \in Writers : SessionOf(v)' = SessionOf(v)
      /\ UNCHANGED <<row, ideal, overlapped>>
  BY DEF Drop, TypeInv, TypeOK, SessionOf
<1>2. \A v \in Writers : HoldsRow(v)' => HoldsRow(v) /\ v # w
  BY <1>1 DEF HoldsRow
<1>3. QED BY <1>1, <1>2 DEF RowInv, RowExact, RowHeldOnce

\* Every step keeps the rows exact outside overlapped.
LEMMA RowStep == TypeInv /\ RowInv /\ [Next]_vars => RowInv'
<1> SUFFICES ASSUME TypeInv, RowInv, [Next]_vars PROVE RowInv'
  OBVIOUS
<1> USE WriterFacts DEF Requests
<1>1. ASSUME NEW s \in Sessions, Cancel(s) PROVE RowInv'
  BY <1>1, RowStutter DEF Cancel, rows
<1>2. ASSUME NEW r \in Runs, NEW s \in Sessions, Run(r, s) PROVE RowInv'
  <2>1. \A w \in Writers : HoldsRow(w) => w[1] # r
    BY <1>2 DEF Run, TypeInv, Owned
  <2>2. QED BY <1>2, <2>1, RowStutter DEF Run, rows, TypeInv, TypeOK
<1>3. CASE Update
  BY <1>3, RowStutter DEF Update, table, rows
<1>4. ASSUME NEW r \in Runs,
             \/ ListMessages(r) \/ CreateUserMessage(r) \/ CallOut(r) \/ CallBack(r)
             \/ Return(r) \/ PublishResult(r)
      PROVE  RowInv'
  BY <1>4, RowStutter
     DEF ListMessages, CreateUserMessage, CallOut, CallBack, Return, PublishResult, rows
<1>5. ASSUME NEW r \in Runs, UsageGet(r) PROVE RowInv'
  BY <1>5, RowGet DEF UsageGet, table, TypeInv, Owned
<1>6. ASSUME NEW r \in Runs, UsageSave(r) PROVE RowInv'
  BY <1>6, RowSave DEF UsageSave, table, TypeInv, Owned
<1>7. ASSUME NEW r \in Runs, UsageSaveFails(r) \/ Panic(r) PROVE RowInv'
  BY <1>7, RowDrop DEF UsageSaveFails, Panic
<1>8. ASSUME NEW r \in Runs, TitleGet(r) PROVE RowInv'
  BY <1>8, RowGet DEF TitleGet, table, TypeInv, Owned
<1>9. ASSUME NEW r \in Runs, TitleSave(r) PROVE RowInv'
  BY <1>9, RowSave DEF TitleSave, table, TypeInv, Owned
<1>10. ASSUME NEW r \in Runs, TitleFails(r) PROVE RowInv'
  BY <1>10, RowDrop DEF TitleFails, table
<1>11. ASSUME NEW q \in Summaries, NEW s \in Sessions, SummarizeCheck(q, s) PROVE RowInv'
  <2>1. \A w \in Writers : HoldsRow(w) => w[1] # q
    BY <1>11 DEF SummarizeCheck, TypeInv, Owned
  <2>2. QED BY <1>11, <2>1, RowStutter DEF SummarizeCheck, rows, TypeInv, TypeOK
<1>12. ASSUME NEW q \in Summaries, SummarizeStore(q) PROVE RowInv'
  BY <1>12, RowStutter DEF SummarizeStore, rows
<1>13. ASSUME NEW q \in Summaries, SummaryGet(q) PROVE RowInv'
  BY <1>13, RowGet DEF SummaryGet, table, TypeInv, Owned
<1>14. ASSUME NEW q \in Summaries, SummarySave(q) PROVE RowInv'
  BY <1>14, RowSave DEF SummarySave, table, TypeInv, Owned
<1>15. ASSUME NEW q \in Summaries, SummarizeEnd(q) PROVE RowInv'
  BY <1>15, RowDrop DEF SummarizeEnd
<1>16. CASE UNCHANGED vars
  BY <1>16, RowStutter DEF vars, table, rows
<1>17. QED
  BY <1>1, <1>2, <1>3, <1>4, <1>5, <1>6, <1>7, <1>8, <1>9, <1>10, <1>11, <1>12, <1>13,
     <1>14, <1>15, <1>16 DEF Next, RunStep, TitleStep, SummarizeStep

\* The stored row is the one in-place updates would give, outside overlapped.
THEOREM RowsAreExact == Spec => []RowExact
<1>1. TypeInv /\ RowInv /\ [Next]_vars => (TypeInv /\ RowInv)'
  BY TypeStep, RowStep
<1>2. RowInv => RowExact
  BY DEF RowInv
<1>3. QED BY TypeInit, RowInit, <1>1, <1>2, PTL DEF Spec

=============================================================================
