------------------------- MODULE CatalogRefresh_proofs -------------------------
(***************************************************************************)
(* Proofs about CatalogRefresh: that the counts of a refresh tell what it  *)
(* did, for any list of OSes, and that the dispatcher respects operators.  *)
(***************************************************************************)
EXTENDS CatalogRefresh, FiniteSetTheorems, TLAPS

Results == {"list", "empty", "raised"}

Jobs ==
  [state: {"none", "queued", "loop", "upsert", "finish", "ended"},
   status: {"pending", "running", "success", "error"}, release: Nat, next: Nat,
   found: Results, counts: [Counters -> Nat], did: [Oses -> Results \cup {"nothing"}]]

DidSet(job, result) == {o \in Oses : job.did[o] = result}

\* What has been counted and done, and where the loop is, agree.
Account(job) ==
  /\ job.next \in 1..(Len(OsOrder) + 1)
  /\ \A i \in DOMAIN OsOrder : i >= job.next => job.did[OsOrder[i]] = "nothing"
  /\ \A result \in Results : IsFiniteSet(DidSet(job, result))
  /\ job.counts["refreshed"] = Cardinality(DidSet(job, "list"))
  /\ job.counts["skipped"] = Cardinality(DidSet(job, "empty"))
  /\ job.counts["errored"] = Cardinality(DidSet(job, "raised"))
  /\ job.counts["refreshed"] + job.counts["skipped"] + job.counts["errored"] = job.next - 1

\* The total runs ahead while a row is stored; only a loop that went through
\* every OS can succeed.
Phase(job) ==
  /\ job.state \in {"none", "queued"} => job.next = 1 /\ job.counts["total"] = 0
  /\ job.state \in {"loop", "finish"} => job.counts["total"] = job.next - 1
  /\ job.state = "upsert" =>
       job.next <= Len(OsOrder) /\ job.counts["total"] = job.next /\ job.found # "raised"
  /\ job.state = "finish" \/ job.status = "success" => job.next = Len(OsOrder) + 1

JobInv(job) == job \in Jobs /\ Account(job) /\ Phase(job)

CatalogInv ==
  /\ release \in Nat
  /\ DOMAIN refresh = Runs
  /\ \A r \in Runs : JobInv(refresh[r])

\* The loop names every OS once.
LEMMA OsesAre ==
  /\ Len(OsOrder) \in Nat
  /\ DOMAIN OsOrder = 1..Len(OsOrder)
  /\ \A i \in 1..Len(OsOrder) : OsOrder[i] \in Oses
  /\ \A i, j \in 1..Len(OsOrder) : OsOrder[i] = OsOrder[j] => i = j
<1>1. OsOrder \in Seq(Range(OsOrder))
  BY CatalogAssumption
<1>2. Len(OsOrder) \in Nat /\ DOMAIN OsOrder = 1..Len(OsOrder)
  BY <1>1
<1> QED
  BY <1>2, CatalogAssumption DEF Oses, Range, IsInjective

LEMMA NewJobInv ==
  ASSUME NEW state \in {"none", "queued"}
  PROVE  JobInv([NewJob EXCEPT !.state = state])
<1> DEFINE job == [NewJob EXCEPT !.state = state]
<1>1. /\ job.state = state /\ job.status = "pending" /\ job.next = 1
      /\ job.counts = NoCounts /\ job.did = [o \in Oses |-> "nothing"]
  BY DEF NewJob
<1>2. job \in Jobs
  BY DEF NewJob, Jobs, NoCounts, Results
<1> HIDE DEF job
<1>3. \A result \in Results : DidSet(job, result) = {}
  BY <1>1 DEF DidSet, Results
<1>4. Account(job)
  <2>1. \A c \in Counters : job.counts[c] = 0
    BY <1>1 DEF NoCounts
  <2>2. \A result \in Results : IsFiniteSet(DidSet(job, result)) /\ Cardinality(DidSet(job, result)) = 0
    BY <1>3, FS_EmptySet
  <2>3. \A i \in DOMAIN OsOrder : job.did[OsOrder[i]] = "nothing"
    BY <1>1, OsesAre
  <2> QED
    BY <1>1, <2>1, <2>2, <2>3, OsesAre DEF Account, Counters, Results
<1> QED
  BY <1>1, <1>2, <1>4 DEF JobInv, Phase, job, NoCounts, Counters

\* A turn moves one OS from those with nothing done to those with its result,
\* and the count goes with it.
LEMMA TurnKeepsAccount ==
  ASSUME NEW job \in Jobs, Account(job), job.next <= Len(OsOrder), NEW result \in Results
  PROVE  LET turned == Turned(job, result)
         IN  /\ turned \in Jobs /\ Account(turned)
             /\ turned.next = job.next + 1
             /\ turned.counts["total"] = job.counts["total"]
             /\ turned.state = job.state /\ turned.status = job.status
<1> DEFINE turned == Turned(job, result)
           os == OsOrder[job.next]
           counter == CASE result = "list" -> "refreshed"
                        [] result = "empty" -> "skipped"
                        [] result = "raised" -> "errored"
<1>1. job.next \in 1..Len(OsOrder) /\ os \in Oses
  BY OsesAre DEF Account
<1>2. counter \in Counters /\ counter # "total"
      /\ (counter = "refreshed" <=> result = "list") /\ (counter = "skipped" <=> result = "empty")
      /\ (counter = "errored" <=> result = "raised")
  BY DEF Results, Counters
<1> HIDE DEF counter
<1>3. job.counts \in [Counters -> Nat] /\ job.did \in [Oses -> Results \cup {"nothing"}]
      /\ job.next \in Nat
  BY DEF Jobs
<1>4. Counted(job.counts, result) = [job.counts EXCEPT ![counter] = @ + 1]
  BY DEF Counted, counter
<1>5. /\ turned.state = job.state /\ turned.status = job.status /\ turned.next = job.next + 1
      /\ turned.counts = [job.counts EXCEPT ![counter] = @ + 1]
      /\ turned.did = [job.did EXCEPT ![os] = result]
      /\ turned.release = job.release /\ turned.found = job.found
  BY <1>4 DEF Turned, Jobs
<1>6. turned.counts \in [Counters -> Nat] /\ turned.did \in [Oses -> Results \cup {"nothing"}]
  BY <1>1, <1>2, <1>3, <1>5
<1>7. turned \in Jobs
  <2>1. job.next + 1 \in Nat
    BY <1>3
  <2>2. Counted(job.counts, result) \in [Counters -> Nat]
    BY <1>4, <1>5, <1>6
  <2>3. [job.did EXCEPT ![os] = result] \in [Oses -> Results \cup {"nothing"}]
    BY <1>5, <1>6
  <2> QED
    BY <2>1, <2>2, <2>3 DEF Turned, Jobs
<1> HIDE DEF turned
<1>8. job.did[os] = "nothing"
  BY <1>1, OsesAre DEF Account
<1>9. /\ DidSet(turned, result) = DidSet(job, result) \cup {os}
      /\ os \notin DidSet(job, result)
      /\ \A other \in Results \ {result} : DidSet(turned, other) = DidSet(job, other)
  BY <1>1, <1>3, <1>5, <1>8 DEF DidSet, Results
<1>10. \A other \in Results : IsFiniteSet(DidSet(job, other))
  BY DEF Account
<1>11. /\ \A other \in Results : IsFiniteSet(DidSet(turned, other))
       /\ Cardinality(DidSet(turned, result)) = Cardinality(DidSet(job, result)) + 1
       /\ \A other \in Results \ {result} :
            Cardinality(DidSet(turned, other)) = Cardinality(DidSet(job, other))
  BY <1>9, <1>10, FS_AddElement, ZenonT(30)
<1>12. \A i \in DOMAIN OsOrder : i >= turned.next => turned.did[OsOrder[i]] = "nothing"
  BY <1>1, <1>3, <1>5, OsesAre DEF Account
<1>13. /\ turned.counts[counter] = job.counts[counter] + 1
       /\ \A other \in Counters \ {counter} : turned.counts[other] = job.counts[other]
  BY <1>2, <1>3, <1>5
<1>14. Account(turned)
  <2>1. turned.next \in 1..(Len(OsOrder) + 1)
    BY <1>1, <1>5, OsesAre
  <2>2. /\ turned.counts["refreshed"] = Cardinality(DidSet(turned, "list"))
        /\ turned.counts["skipped"] = Cardinality(DidSet(turned, "empty"))
        /\ turned.counts["errored"] = Cardinality(DidSet(turned, "raised"))
    BY <1>2, <1>11, <1>13 DEF Account, Results, Counters
  <2>3. turned.counts["refreshed"] + turned.counts["skipped"] + turned.counts["errored"]
          = turned.next - 1
    <3>1. /\ job.counts["refreshed"] \in Nat /\ job.counts["skipped"] \in Nat
          /\ job.counts["errored"] \in Nat /\ job.next \in Nat
          /\ turned.next = job.next + 1
      BY <1>3, <1>5 DEF Counters
    <3> DEFINE a == job.counts["refreshed"]
               b == job.counts["skipped"]
               c == job.counts["errored"]
               n == job.next
    <3>2. a \in Nat /\ b \in Nat /\ c \in Nat /\ n \in Nat /\ a + b + c = n - 1
      BY <3>1 DEF Account
    <3>3. counter \in {"refreshed", "skipped", "errored"}
      BY <1>2 DEF Counters
    <3>4. \/ /\ turned.counts["refreshed"] = a + 1
             /\ turned.counts["skipped"] = b /\ turned.counts["errored"] = c
          \/ /\ turned.counts["skipped"] = b + 1
             /\ turned.counts["refreshed"] = a /\ turned.counts["errored"] = c
          \/ /\ turned.counts["errored"] = c + 1
             /\ turned.counts["refreshed"] = a /\ turned.counts["skipped"] = b
      BY <1>13, <3>3 DEF Counters
    <3>5. turned.next = n + 1
      BY <3>1
    <3> HIDE DEF a, b, c, n
    <3>6. /\ (a + 1) + b + c = (n + 1) - 1
          /\ a + (b + 1) + c = (n + 1) - 1
          /\ a + b + (c + 1) = (n + 1) - 1
      BY <3>2
    <3> QED
      BY <3>4, <3>5, <3>6
  <2> QED
    BY <1>11, <1>12, <2>1, <2>2, <2>3 DEF Account
<1> QED
  BY <1>2, <1>5, <1>7, <1>13, <1>14 DEF turned, Counters
LEMMA AccountAgrees ==
  ASSUME NEW job, NEW other, other.next = job.next, other.did = job.did,
         other.counts["refreshed"] = job.counts["refreshed"],
         other.counts["skipped"] = job.counts["skipped"],
         other.counts["errored"] = job.counts["errored"], Account(job)
  PROVE  Account(other)
BY DEF Account, DidSet

\* A step of job r changes that job only.
LEMMA OneJob ==
  ASSUME CatalogInv, NEW r \in Runs, NEW job, refresh' = [refresh EXCEPT ![r] = job],
         JobInv(job), release' \in Nat
  PROVE  CatalogInv'
BY DEF CatalogInv

LEMMA DiscoverKeeps ==
  ASSUME CatalogInv, NEW r \in Runs, NEW found \in Results, Discover(r, found)
  PROVE  CatalogInv'
<1> DEFINE job == refresh[r]
           counts == [job.counts EXCEPT !.total = @ + 1]
           turn == [job EXCEPT !.state = AfterDiscovery(found), !.found = found, !.counts = counts]
<1>1. job \in Jobs /\ Account(job) /\ Phase(job)
  BY DEF CatalogInv, JobInv
<1>2. job.state = "loop" /\ job.next <= Len(OsOrder) /\ release' = release
      /\ refresh' = [refresh EXCEPT ![r] = IF found = "raised" THEN Turned(turn, found) ELSE turn]
  BY DEF Discover, jobOnly
<1>3. /\ counts \in [Counters -> Nat]
      /\ counts["total"] = job.counts["total"] + 1
      /\ \A c \in Counters \ {"total"} : counts[c] = job.counts[c]
  BY <1>1 DEF Jobs, Counters
<1> HIDE DEF counts
<1>4. AfterDiscovery(found) = IF found = "raised" THEN "loop" ELSE "upsert"
  BY DEF AfterDiscovery
<1>5. /\ turn.state = AfterDiscovery(found) /\ turn.found = found /\ turn.counts = counts
      /\ turn.next = job.next /\ turn.did = job.did /\ turn.status = job.status
  BY <1>1 DEF Jobs
<1>6. turn \in Jobs
  BY <1>1, <1>3, <1>4 DEF Jobs
<1> HIDE DEF turn
<1>7. Account(turn)
  BY <1>1, <1>3, <1>5, AccountAgrees DEF Counters
<1>8. job.next \in Nat /\ job.counts["total"] = job.next - 1 /\ Len(OsOrder) \in Nat
      /\ job.status # "success"
  BY <1>1, <1>2, OsesAre DEF Jobs, Phase
<1>9. CASE found = "raised"
  <2>1. /\ Turned(turn, found) \in Jobs /\ Account(Turned(turn, found))
        /\ Turned(turn, found).next = job.next + 1
        /\ Turned(turn, found).counts["total"] = job.next
        /\ Turned(turn, found).state = "loop" /\ Turned(turn, found).status = job.status
    BY <1>2, <1>3, <1>4, <1>5, <1>6, <1>7, <1>8, <1>9, TurnKeepsAccount
  <2>2. JobInv(Turned(turn, found))
    BY <1>8, <2>1 DEF JobInv, Phase
  <2> QED
    BY <1>2, <1>9, <2>2, OneJob DEF CatalogInv
<1>10. CASE found # "raised"
  <2>1. Phase(turn)
    BY <1>2, <1>3, <1>4, <1>5, <1>8, <1>10 DEF Phase
  <2> QED
    BY <1>2, <1>6, <1>7, <1>10, <2>1, OneJob DEF CatalogInv, JobInv
<1> QED
  BY <1>9, <1>10

LEMMA UpsertKeeps ==
  ASSUME CatalogInv, NEW r \in Runs, Upsert(r)
  PROVE  CatalogInv'
<1> DEFINE job == refresh[r]
           turned == Turned(job, job.found)
           next == [turned EXCEPT !.state = "loop"]
<1>1. job \in Jobs /\ Account(job) /\ Phase(job) /\ job.state = "upsert" /\ release' = release
      /\ refresh' = [refresh EXCEPT ![r] = next]
  BY DEF CatalogInv, JobInv, Upsert
<1>2. job.next <= Len(OsOrder) /\ job.counts["total"] = job.next /\ job.found \in Results
      /\ job.next \in Nat /\ Len(OsOrder) \in Nat /\ job.status # "success"
  BY <1>1, OsesAre DEF Phase, Jobs
<1>3. /\ turned \in Jobs /\ Account(turned) /\ turned.next = job.next + 1
      /\ turned.counts["total"] = job.next /\ turned.status = job.status
  BY <1>1, <1>2, TurnKeepsAccount
<1> HIDE DEF turned
<1>4. /\ next \in Jobs /\ next.state = "loop" /\ next.next = turned.next /\ next.did = turned.did
      /\ next.counts = turned.counts /\ next.status = turned.status
  BY <1>3 DEF Jobs
<1> HIDE DEF next
<1>5. JobInv(next)
  BY <1>2, <1>3, <1>4, AccountAgrees DEF JobInv, Phase
<1> QED
  BY <1>1, <1>5, OneJob DEF CatalogInv

\* The steps that change no more than the state, the status and the release.
LEMMA MoveKeeps ==
  ASSUME NEW job, JobInv(job), NEW next \in Jobs, next.next = job.next, next.did = job.did,
         next.counts = job.counts, Phase(next)
  PROVE  JobInv(next)
BY AccountAgrees DEF JobInv

LEMMA MovesKeep ==
  ASSUME CatalogInv, NEW r \in Runs,
         \/ MarkRunning(r) \/ MarkRunningFails(r) \/ UpsertFails(r) \/ EndLoop(r)
         \/ FinishSuccess(r) \/ FinishSuccessFails(r) \/ CrashRefresh(r)
  PROVE  CatalogInv'
<1> DEFINE job == refresh[r]
<1>1. JobInv(job) /\ job \in Jobs /\ Account(job) /\ Phase(job) /\ release \in Nat
      /\ DOMAIN refresh = Runs
  BY DEF CatalogInv, JobInv
<1>2. job.next \in Nat /\ job.next <= Len(OsOrder) + 1 /\ Len(OsOrder) \in Nat
  BY <1>1, OsesAre DEF Account
<1>3. ASSUME NEW next \in Jobs, refresh' = [refresh EXCEPT ![r] = next], release' = release,
             next.next = job.next, next.did = job.did, next.counts = job.counts, Phase(next)
      PROVE  CatalogInv'
  <2>1. JobInv(next)
    BY <1>1, <1>3, MoveKeeps
  <2> QED
    BY <1>1, <1>3, <2>1, OneJob
<1>4. CASE MarkRunning(r)
  <2> DEFINE next == [job EXCEPT !.state = "loop", !.status = "running", !.release = release]
  <2>1. next \in Jobs /\ next.next = job.next /\ next.did = job.did /\ next.counts = job.counts
        /\ next.state = "loop" /\ next.status = "running"
    BY <1>1 DEF Jobs
  <2>2. refresh' = [refresh EXCEPT ![r] = next] /\ release' = release
    BY <1>4 DEF MarkRunning, jobOnly
  <2>3. job.state = "queued"
    BY <1>4 DEF MarkRunning
  <2> HIDE DEF next
  <2>4. Phase(next)
    BY <1>1, <2>1, <2>3 DEF Phase
  <2> QED
    BY <1>3, <2>1, <2>2, <2>4
<1>5. CASE EndLoop(r)
  <2> DEFINE next == [job EXCEPT !.state = "finish"]
  <2>1. next \in Jobs /\ next.next = job.next /\ next.did = job.did /\ next.counts = job.counts
        /\ next.state = "finish" /\ next.status = job.status
    BY <1>1 DEF Jobs
  <2>2. refresh' = [refresh EXCEPT ![r] = next] /\ release' = release
        /\ job.state = "loop" /\ job.next > Len(OsOrder)
    BY <1>5 DEF EndLoop, jobOnly
  <2> HIDE DEF next
  <2>3. Phase(next)
    BY <1>1, <1>2, <2>1, <2>2 DEF Phase
  <2> QED
    BY <1>3, <2>1, <2>2, <2>3
<1>6. CASE FinishSuccess(r)
  <2> DEFINE next == [job EXCEPT !.state = "ended", !.status = "success"]
  <2>1. next \in Jobs /\ next.next = job.next /\ next.did = job.did /\ next.counts = job.counts
        /\ next.state = "ended" /\ next.status = "success"
    BY <1>1 DEF Jobs
  <2>2. refresh' = [refresh EXCEPT ![r] = next] /\ release' = release /\ job.state = "finish"
    BY <1>6 DEF FinishSuccess, jobOnly
  <2> HIDE DEF next
  <2>3. Phase(next)
    BY <1>1, <2>1, <2>2 DEF Phase
  <2> QED
    BY <1>3, <2>1, <2>2, <2>3
<1>7. CASE MarkRunningFails(r) \/ CrashRefresh(r)
  <2> DEFINE next == [job EXCEPT !.state = "ended"]
  <2>1. next \in Jobs /\ next.next = job.next /\ next.did = job.did /\ next.counts = job.counts
        /\ next.state = "ended" /\ next.status = job.status
    BY <1>1 DEF Jobs
  <2>2. refresh' = [refresh EXCEPT ![r] = next] /\ release' = release
    BY <1>7 DEF MarkRunningFails, CrashRefresh, jobOnly
  <2> HIDE DEF next
  <2>3. Phase(next)
    BY <1>1, <2>1 DEF Phase
  <2> QED
    BY <1>3, <2>1, <2>2, <2>3
<1>8. CASE UpsertFails(r) \/ FinishSuccessFails(r)
  <2> DEFINE next == RecordError(job)
  <2>1. next \in Jobs /\ next.next = job.next /\ next.did = job.did /\ next.counts = job.counts
        /\ next.state = "ended" /\ next.status = "error"
    BY <1>1 DEF Jobs, RecordError
  <2>2. refresh' = [refresh EXCEPT ![r] = next] /\ release' = release
    BY <1>8 DEF UpsertFails, FinishSuccessFails, jobOnly
  <2> HIDE DEF next
  <2>3. Phase(next)
    BY <2>1 DEF Phase
  <2> QED
    BY <1>3, <2>1, <2>2, <2>3
<1> QED
  BY <1>4, <1>5, <1>6, <1>7, <1>8

LEMMA EnqueueKeeps ==
  ASSUME CatalogInv, NEW r \in Runs, EnqueueRefresh(r), release' = release
  PROVE  CatalogInv'
BY NewJobInv, OneJob DEF EnqueueRefresh, CatalogInv

LEMMA CatalogInvInit == Init => CatalogInv
<1>1. NewJob = [NewJob EXCEPT !.state = "none"]
  BY DEF NewJob
<1>2. JobInv(NewJob)
  BY <1>1, NewJobInv
<1> QED
  BY <1>2 DEF Init, CatalogInv

LEMMA CatalogInvStep == CatalogInv /\ [Next]_vars => CatalogInv'
<1> SUFFICES ASSUME CatalogInv, [Next]_vars PROVE CatalogInv'
  OBVIOUS
<1>1. ASSUME NEW r \in Runs, RefreshStep(r) \/ RefreshFault(r)
      PROVE  CatalogInv'
  BY <1>1, DiscoverKeeps, UpsertKeeps, MovesKeep DEF RefreshStep, RefreshFault, Results
<1>2. CASE DispatcherStep \/ DispatchFails
  <2>1. ASSUME NEW r \in Runs, DispatchRefresh(r)
        PROVE  CatalogInv'
    BY <2>1, EnqueueKeeps DEF DispatchRefresh, dispatcherOnly
  <2>2. CASE GetOrCreate \/ Stamp \/ StampFails \/ DispatchFails
    BY <2>2 DEF GetOrCreate, Stamp, StampFails, DispatchFails, dispatcherOnly, CatalogInv
  <2> QED
    BY <1>2, <2>1, <2>2 DEF DispatcherStep
<1>3. CASE OperatorStep
  <2>1. ASSUME NEW r \in Runs, RefreshParserList(r)
        PROVE  CatalogInv'
    BY <2>1, EnqueueKeeps DEF RefreshParserList
  <2>2. CASE Upgrade
    BY <2>2 DEF Upgrade, CatalogInv
  <2>3. CASE OperatorStep /\ ~Upgrade /\ ~\E r \in Runs : RefreshParserList(r)
    BY <2>3 DEF OperatorStep, OpenForm, SaveForm, PostSchedule, DeleteSchedule, operatorOnly,
                CatalogInv
  <2> QED
    BY <1>3, <2>1, <2>2, <2>3
<1>4. CASE UNCHANGED vars
  BY <1>4 DEF vars, CatalogInv
<1> QED
  BY <1>1, <1>2, <1>3, <1>4 DEF Next

LEMMA CatalogInvImpliesCounts == CatalogInv => CountsTellTheRun
<1> SUFFICES ASSUME CatalogInv, NEW r \in Runs
             PROVE  LET job == refresh[r]
                        turns == Did(r, "list") + Did(r, "empty") + Did(r, "raised")
                    IN  /\ job.counts.refreshed = Did(r, "list")
                        /\ job.counts.skipped = Did(r, "empty")
                        /\ job.counts.errored = Did(r, "raised")
                        /\ job.status = "success" => turns = Len(OsOrder)
                        /\ job.state \in {"finish", "loop"} => job.counts.total = turns
  BY DEF CountsTellTheRun
<1> DEFINE job == refresh[r]
<1>1. job \in Jobs /\ Account(job) /\ Phase(job)
  BY DEF CatalogInv, JobInv
<1>2. \A result : Did(r, result) = Cardinality(DidSet(job, result))
  BY DEF Did, DidSet
<1>3. /\ job.counts.refreshed = Did(r, "list")
      /\ job.counts.skipped = Did(r, "empty")
      /\ job.counts.errored = Did(r, "raised")
      /\ Did(r, "list") + Did(r, "empty") + Did(r, "raised") = job.next - 1
  BY <1>1, <1>2 DEF Account
<1>4. job.next \in Nat /\ Len(OsOrder) \in Nat
  BY <1>1, OsesAre DEF Jobs
<1> QED
  BY <1>1, <1>3, <1>4 DEF Phase

\* The summary of refresh_parser_catalog_job counts what it did to the catalog,
\* for any list of OSes, whatever fails: one failing OS costs its own turn only.
THEOREM CountsTellEveryRun == Spec => []CountsTellTheRun
<1>1. CatalogInv /\ [Next]_vars => CatalogInv'
  BY CatalogInvStep
<1> QED
  BY <1>1, CatalogInvInit, CatalogInvImpliesCounts, PTL DEF Spec

LEMMA DispatcherRespects ==
  ASSUME [Next]_vars, dispatcher' # dispatcher
  PROVE  \A pk \in DOMAIN schedules : schedules'[pk] = schedules[pk]
<1>1. CASE GetOrCreate
  BY <1>1 DEF GetOrCreate, WithRow
<1>2. CASE Stamp
  BY <1>2 DEF Stamp, Stamped
<1>3. CASE DispatchFails \/ StampFails \/ \E r \in Runs : DispatchRefresh(r)
  BY <1>3 DEF DispatchFails, StampFails, DispatchRefresh
<1>4. ASSUME NEW r \in Runs
      PROVE  ~RefreshStep(r) /\ ~RefreshFault(r)
  BY DEF RefreshStep, RefreshFault, MarkRunning, MarkRunningFails, Discover, Upsert, UpsertFails,
         EndLoop, FinishSuccess, FinishSuccessFails, CrashRefresh, jobOnly
<1>5. ~OperatorStep
  BY DEF OperatorStep, RefreshParserList, OpenForm, SaveForm, PostSchedule, DeleteSchedule,
         Upgrade, operatorOnly
<1>6. ~UNCHANGED vars
  BY DEF vars
<1> QED
  BY <1>1, <1>2, <1>3, <1>4, <1>5, <1>6 DEF Next, DispatcherStep

\* No step of run_parser_catalog_refresh_schedules_job enables or disables a
\* schedule, though it saves a row that it read before.
THEOREM DispatcherAlwaysRespects == Spec => OperatorsDecide
<1> DEFINE Respected == dispatcher' # dispatcher =>
                          \A pk \in DOMAIN schedules : schedules'[pk] = schedules[pk]
<1>1. [Next]_vars => [Respected]_vars
  BY DispatcherRespects
<1> HIDE DEF Respected
<1>2. Spec => [][Respected]_vars
  BY <1>1, PTL DEF Spec
<1> QED
  BY <1>2 DEF OperatorsDecide, Respected
=============================================================================
