-------------------------- MODULE Commands_proofs --------------------------
(***************************************************************************)
(* Commands takes effect once and answers truly, for any number of calls,  *)
(* request ids, keys and bodies and any number of stalls.                  *)
(*                                                                         *)
(* The clients' view (AppliedOnce, AnswerIsTrue) is about the journal; the *)
(* code decides by leases and sentinels.  The inductive invariant says     *)
(* that these two agree at every point: a completed journal row has a      *)
(* committed lease or a claimed key that names it (Journaled), and what a  *)
(* replay is answered from has a completed row (Vouched).                  *)
(***************************************************************************)
EXTENDS Commands, TLAPS

LeaseSteps == {"by_intent", "by_failure", "transact", "reply"}
KeySteps == {"recover", "dispatch", "ack"}
ByLease(c) == Id(c) \in Requests /\ Intent(c) \in Lifecycle
ByKey(c) == Id(c) \in Keys /\ Intent(c) \in Bodies

(* Where a call stands tells what it asked for, and whether it has         *)
(* committed and answered.                                                 *)
Steps ==
    \A c \in Calls :
        /\ at[c] \in LeaseSteps => ByLease(c)
        /\ at[c] \in KeySteps => ByKey(c)
        /\ at[c] \in {"reply", "ack"} => journal[c] = "completed"
        /\ at[c] \notin {"reply", "ack", "over"} => journal[c] = "none"
        /\ at[c] # "over" => answer[c] = "none"
        /\ journal[c] = "completed" => ByLease(c) \/ ByKey(c)

(* A completed row has its lease, or its key. *)
Journaled ==
    \A c \in Committed :
        /\ ByLease(c) => lease[Id(c)].state = "committed" /\ lease[Id(c)].intent = Intent(c)
        /\ ByKey(c) => sentinel[Id(c)].state # "none" /\ sentinel[Id(c)].body = Intent(c)

(* What is replayed was committed. *)
Vouched ==
    /\ \A r \in Requests : lease[r].state = "committed" =>
           \E c \in Committed : Id(c) = r /\ Intent(c) = lease[r].intent
    /\ \A k \in Keys : sentinel[k].state \in {"done", "recovered"} =>
           \E c \in Committed : Id(c) = k /\ Intent(c) = sentinel[k].body

(* The index command_intent_active_uniq. *)
OneActive ==
    \A q, r \in Requests :
        /\ q # r
        /\ lease[q].state \in {"pending", "committed"}
        /\ lease[r].state \in {"pending", "committed"}
        => lease[q].intent # lease[r].intent

OneCommit == \A c, d \in Committed : c # d => Id(c) # Id(d)

(* A committed decision is the approval's. *)
Decided ==
    \A r \in Requests :
        lease[r].state = "committed" /\ lease[r].intent \in Decisions =>
            approval = IF lease[r].intent = "approve" THEN "granted" ELSE "rejected"

IInv ==
    /\ TypeOK /\ Steps /\ Journaled /\ Vouched /\ OneActive /\ OneCommit /\ Decided
    /\ AnswerIsTrue /\ RefusedIsInert

-----------------------------------------------------------------------------
(* What an ask is, given that ids and keys cannot be confused.             *)
LEMMA AskKinds ==
    ASSUME NEW a \in Asks
    PROVE  /\ a.id \in Requests => a.intent \in Lifecycle /\ a.id \notin Keys
           /\ a.id \in Keys => a.intent \in Bodies /\ a.id \notin Requests
  BY CommandsAssumption DEF Asks

LEMMA InitHolds == Init => IInv
<1> SUFFICES ASSUME Init PROVE IInv
  OBVIOUS
<1>1. TypeOK
  <2>1. /\ NoLease \in [state : {"none", "pending", "committed", "failed"},
                        intent : Lifecycle \cup {"none"}, lapsed : BOOLEAN]
        /\ NoRow \in [state : {"none", "pending", "aged", "done", "recovered"},
                      body : Bodies \cup {"none"}]
    BY DEF NoLease, NoRow
  <2>2. stalls \in 0 .. MaxStalls
    BY CommandsAssumption DEF Init
  <2>3. run \in {"waiting"} \cup Stalled /\ approval \in {"requested", "none"}
    BY DEF Init
  <2> QED
    BY <2>1, <2>2, <2>3 DEF Init, TypeOK, Answers
<1>2. Steps /\ Journaled /\ OneCommit /\ AnswerIsTrue /\ RefusedIsInert
  BY DEF Init, Steps, Journaled, OneCommit, AnswerIsTrue, RefusedIsInert, Committed,
         LeaseSteps, KeySteps, Refusals
<1>3. Vouched /\ OneActive /\ Decided
  BY DEF Init, Vouched, OneActive, Decided, NoLease, NoRow
<1> QED
  BY <1>1, <1>2, <1>3 DEF IInv

-----------------------------------------------------------------------------
(* Frames                                                                  *)

(* What a committed call asked for does not change, nor that it committed. *)
Kept == \A d \in Committed : journal'[d] = "completed" /\ ask'[d] = ask[d]

Truth(c) ==
    /\ answer[c] = "done" =>
          \E d \in Committed : Intent(d) = Intent(c) /\ (Id(c) \in Keys => Id(d) = Id(c))
    /\ answer[c] = "recovered" => \E d \in Committed : Id(d) = Id(c)

(* A step of one call leaves the answers of the others true. *)
LEMMA TruthKept ==
    ASSUME IInv, Kept, NEW x \in Calls, Truth(x)',
           \A c \in Calls \ {x} : answer'[c] = answer[c] /\ ask'[c] = ask[c]
    PROVE  AnswerIsTrue'
<1> SUFFICES ASSUME NEW c \in Calls, c # x PROVE Truth(c)'
  BY DEF AnswerIsTrue, Truth
<1>1. Truth(c)
  BY DEF IInv, AnswerIsTrue, Truth
<1>2. \A d \in Committed : d \in Committed' /\ Id(d)' = Id(d) /\ Intent(d)' = Intent(d)
  BY DEF Kept, Committed, Id, Intent
<1> QED
  BY <1>1, <1>2 DEF Truth, Id, Intent

(* A step that commits nothing, and changes no lease, key or decision. *)
LEMMA QuietStep ==
    ASSUME IInv, Kept, journal' = journal, lease' = lease, sentinel' = sentinel,
           approval' = approval
    PROVE  Journaled' /\ Vouched' /\ OneActive' /\ OneCommit' /\ Decided'
<1>1. \A d \in Committed : Id(d)' = Id(d) /\ Intent(d)' = Intent(d)
  BY DEF Kept, Id, Intent
<1>2. Committed' = Committed
  BY DEF Committed
<1>3. Journaled'
  BY <1>1, <1>2 DEF IInv, Journaled, ByLease, ByKey
<1>4. Vouched'
  BY <1>1, <1>2 DEF IInv, Vouched
<1>5. OneActive' /\ Decided'
  BY DEF IInv, OneActive, Decided
<1>6. OneCommit'
  BY <1>1, <1>2 DEF IInv, OneCommit
<1> QED
  BY <1>3, <1>4, <1>5, <1>6

-----------------------------------------------------------------------------
(* Look-ups                                                                *)

LEMMA LookUpStep ==
    ASSUME IInv, NEW c \in Calls, NEW a \in Asks, LookUp(c, a)
    PROVE  IInv'
<1> DEFINE verdict == Replay(lease[a.id], a.intent)
<1>0. /\ at[c] = "idle" /\ a.id \in Requests /\ a.intent \in Lifecycle /\ a.id \notin Keys
      /\ ask' = [ask EXCEPT ![c] = a]
      /\ journal' = journal /\ lease' = lease /\ aliases' = aliases /\ sentinel' = sentinel
      /\ run' = run /\ queued' = queued /\ approval' = approval /\ stalls' = stalls
  BY AskKinds DEF LookUp, leaseVars, domainVars
<1>1. \/ verdict = "proceed" /\ Goto(c, "by_intent")
      \/ verdict # "proceed" /\ Answer(c, verdict)
  BY DEF LookUp
<1>2. /\ verdict \in {"proceed", "mismatch", "done", "failed_before", "in_flight"}
      /\ verdict = "done" => lease[a.id].state = "committed" /\ lease[a.id].intent = a.intent
  BY <1>0 DEF Replay, IInv, TypeOK
<1>3. TypeOK'
  BY <1>0, <1>1, <1>2 DEF IInv, TypeOK, Goto, Answer, Answers, Refusals
<1>4. Steps'
  BY <1>0, <1>1, <1>2 DEF IInv, TypeOK, Steps, Goto, Answer, LeaseSteps, KeySteps, ByLease, ByKey, Id, Intent
<1>5. Kept
  BY <1>0 DEF IInv, TypeOK, Steps, Kept, Committed
<1>6. Journaled' /\ Vouched' /\ OneActive' /\ OneCommit' /\ Decided'
  BY <1>0, <1>5, QuietStep
<1>7. Truth(c)'
  <2>1. CASE verdict = "proceed"
    BY <1>0, <1>1, <2>1 DEF IInv, TypeOK, Steps, Goto, Truth
  <2>2. CASE verdict # "proceed" /\ verdict # "done"
    BY <1>1, <1>2, <2>2 DEF IInv, TypeOK, Answer, Truth
  <2>3. CASE verdict = "done"
    <3>1. PICK d \in Committed : Id(d) = a.id /\ Intent(d) = a.intent
      BY <1>0, <1>2, <2>3 DEF IInv, Vouched
    <3>2. d \in Committed' /\ Intent(d)' = a.intent
      BY <1>0, <1>5, <3>1 DEF Kept, Committed, Intent
    <3>3. answer'[c] = "done" /\ Intent(c)' = a.intent /\ Id(c)' = a.id
      BY <1>0, <1>1, <2>3 DEF IInv, TypeOK, Answer, Intent, Id
    <3> QED
      BY <1>0, <3>2, <3>3 DEF Truth
  <2> QED
    BY <2>1, <2>2, <2>3
<1>8. AnswerIsTrue'
  BY <1>0, <1>1, <1>5, <1>7, TruthKept DEF IInv, TypeOK, Goto, Answer
<1>9. RefusedIsInert'
  BY <1>0, <1>1 DEF IInv, TypeOK, Steps, RefusedIsInert, Goto, Answer
<1> QED
  BY <1>3, <1>4, <1>6, <1>8, <1>9 DEF IInv

(* A call goes on to a further look-up, or to its transaction. *)
LEMMA GotoStep ==
    ASSUME IInv, NEW c \in Calls, at[c] \in {"by_intent", "by_failure"},
           NEW label \in {"by_failure", "transact"}, Goto(c, label), aliases' = aliases,
           UNCHANGED <<ask, journal, lease, sentinel, domainVars>>
    PROVE  IInv'
<1>1. TypeOK'
  BY DEF IInv, TypeOK, Goto, domainVars
<1>2. Steps'
  BY DEF IInv, TypeOK, Steps, Goto, LeaseSteps, KeySteps, ByLease, ByKey, Id, Intent
<1>3. Kept
  BY DEF Kept, Committed
<1>4. Journaled' /\ Vouched' /\ OneActive' /\ OneCommit' /\ Decided'
  BY <1>3, QuietStep DEF domainVars
<1>5. AnswerIsTrue' /\ RefusedIsInert'
  BY DEF IInv, AnswerIsTrue, RefusedIsInert, Goto, Committed, Id, Intent
<1> QED
  BY <1>1, <1>2, <1>4, <1>5 DEF IInv

(* A call is answered, and at most an alias is stored. *)
LEMMA AnswerStep ==
    ASSUME IInv, NEW c \in Calls, NEW code \in Answers, Answer(c, code),
           UNCHANGED <<ask, journal, lease, sentinel, domainVars>>,
           aliases' \subseteq Lifecycle \X Requests \X Requests,
           code \in Refusals => journal[c] # "completed",
           code = "done" => \E d \in Committed :
               Intent(d) = Intent(c) /\ (Id(c) \in Keys => Id(d) = Id(c)),
           code = "recovered" => \E d \in Committed : Id(d) = Id(c)
    PROVE  IInv'
<1>1. TypeOK'
  BY DEF IInv, TypeOK, Answer, domainVars
<1>2. Steps'
  BY DEF IInv, TypeOK, Steps, Answer, LeaseSteps, KeySteps, ByLease, ByKey, Id, Intent
<1>3. Kept
  BY DEF Kept, Committed
<1>4. Journaled' /\ Vouched' /\ OneActive' /\ OneCommit' /\ Decided'
  BY <1>3, QuietStep DEF domainVars
<1>5. Truth(c)'
  BY DEF IInv, TypeOK, Truth, Answer, Committed, Id, Intent
<1>6. AnswerIsTrue'
  BY <1>3, <1>5, TruthKept DEF IInv, TypeOK, Answer
<1>7. RefusedIsInert'
  BY DEF IInv, TypeOK, RefusedIsInert, Answer
<1> QED
  BY <1>1, <1>2, <1>4, <1>6, <1>7 DEF IInv

LEMMA LookUpIntentStep ==
    ASSUME IInv, NEW c \in Calls, LookUpIntent(c)
    PROVE  IInv'
<1>0. /\ at[c] = "by_intent" /\ ByLease(c) /\ journal[c] = "none" /\ Id(c) \notin Keys
      /\ UNCHANGED <<ask, journal, lease, sentinel, domainVars>>
  BY CommandsAssumption DEF IInv, Steps, LeaseSteps, ByLease, LookUpIntent
<1>1. CASE CommittedFor(Intent(c)) \ {Id(c)} = {}
  BY <1>0, <1>1, GotoStep DEF LookUpIntent
<1>2. CASE CommittedFor(Intent(c)) \ {Id(c)} # {}
  <2>1. PICK r \in CommittedFor(Intent(c)) :
             /\ aliases' = IF \E q \in Requests : <<Intent(c), Id(c), q>> \in aliases
                           THEN aliases ELSE aliases \cup {<<Intent(c), Id(c), r>>}
             /\ \/ Answer(c, "done") \/ Answer(c, "not_actionable") \/ Answer(c, "error")
    BY <1>2 DEF LookUpIntent
  <2>2. aliases' \subseteq Lifecycle \X Requests \X Requests
    <3>1. <<Intent(c), Id(c), r>> \in Lifecycle \X Requests \X Requests
      BY <1>0, <2>1 DEF CommittedFor, ByLease
    <3>2. aliases \subseteq Lifecycle \X Requests \X Requests
      BY DEF IInv, TypeOK
    <3>3. aliases' \subseteq aliases \cup {<<Intent(c), Id(c), r>>}
      BY <2>1
    <3> QED
      BY <3>1, <3>2, <3>3
  <2>3. \E d \in Committed : Intent(d) = Intent(c)
    BY <2>1 DEF CommittedFor, IInv, Vouched
  <2> QED
    BY <1>0, <2>1, <2>2, <2>3, AnswerStep DEF Answers, Refusals
<1> QED
  BY <1>1, <1>2

LEMMA LookUpFailureStep ==
    ASSUME IInv, NEW c \in Calls, LookUpFailure(c)
    PROVE  IInv'
<1>0. /\ at[c] = "by_failure" /\ journal[c] = "none"
      /\ UNCHANGED <<ask, journal, lease, sentinel, domainVars>>
      /\ aliases' = aliases /\ aliases \subseteq Lifecycle \X Requests \X Requests
  BY DEF IInv, TypeOK, Steps, LookUpFailure, leaseVars
<1>1. CASE Answer(c, "failed_before")
  BY <1>0, <1>1, AnswerStep DEF Answers, Refusals
<1>2. CASE Goto(c, "transact")
  BY <1>0, <1>2, GotoStep
<1> QED
  BY <1>1, <1>2 DEF LookUpFailure

-----------------------------------------------------------------------------
(* Answers that change nothing                                             *)

LEMMA InertStep ==
    ASSUME IInv, NEW c \in Calls,
           Busy(c) \/ KeyBusy(c) \/ Abort(c) \/ Reply(c) \/ RebuildFails(c)
    PROVE  IInv'
<1>0. /\ UNCHANGED <<ask, journal, lease, sentinel, domainVars>> /\ aliases' = aliases
      /\ aliases \subseteq Lifecycle \X Requests \X Requests
  BY DEF IInv, TypeOK, Busy, KeyBusy, Abort, Reply, RebuildFails, leaseVars
<1>1. CASE Busy(c) \/ KeyBusy(c) \/ Abort(c)
  <2>1. journal[c] = "none"
    BY <1>1 DEF IInv, Steps, Busy, KeyBusy, Abort
  <2>2. Answer(c, "in_flight") \/ Answer(c, "error")
    BY <1>1 DEF Busy, KeyBusy, Abort
  <2> QED
    BY <1>0, <2>1, <2>2, AnswerStep DEF Answers, Refusals
<1>2. CASE Reply(c)
  <2>1. c \in Committed /\ Answer(c, "done")
    BY <1>2 DEF IInv, Steps, Reply, Committed
  <2> QED
    BY <1>0, <2>1, AnswerStep DEF Answers, Refusals
<1>3. CASE RebuildFails(c)
  <2>1. Answer(c, "error")
    BY <1>3 DEF RebuildFails
  <2> QED
    BY <1>0, <2>1, AnswerStep DEF Answers, Refusals
<1> QED
  BY <1>1, <1>2, <1>3

-----------------------------------------------------------------------------
(* Keyed tools                                                             *)

LEMMA PrecheckStep ==
    ASSUME IInv, NEW c \in Calls, NEW a \in Asks, Precheck(c, a)
    PROVE  IInv'
<1>0. /\ at[c] = "idle" /\ a.id \in Keys /\ a.intent \in Bodies /\ a.id \notin Requests
      /\ ask' = [ask EXCEPT ![c] = a]
      /\ journal' = journal /\ lease' = lease /\ aliases' = aliases /\ sentinel' = sentinel
      /\ run' = run /\ queued' = queued /\ approval' = approval /\ stalls' = stalls
  BY AskKinds DEF Precheck, leaseVars, domainVars
<1>1. \/ Goto(c, "dispatch") \/ Goto(c, "recover")
      \/ Answer(c, "in_flight") \/ Answer(c, "conflict")
      \/ /\ Answer(c, "done") /\ sentinel[a.id].state \in {"done", "recovered"}
         /\ sentinel[a.id].body = a.intent
  BY DEF Precheck
<1>2. TypeOK'
  BY <1>0, <1>1 DEF IInv, TypeOK, Goto, Answer, Answers, Refusals
<1>3. Steps'
  BY <1>0, <1>1 DEF IInv, TypeOK, Steps, Goto, Answer, LeaseSteps, KeySteps, ByLease, ByKey, Id, Intent
<1>4. Kept
  BY <1>0 DEF IInv, TypeOK, Steps, Kept, Committed
<1>5. Journaled' /\ Vouched' /\ OneActive' /\ OneCommit' /\ Decided'
  BY <1>0, <1>4, QuietStep
<1>6. Truth(c)'
  <2>1. CASE answer'[c] \notin {"done", "recovered"}
    BY <2>1 DEF Truth
  <2>2. CASE Answer(c, "done") /\ sentinel[a.id].state \in {"done", "recovered"}
             /\ sentinel[a.id].body = a.intent
    <3>1. PICK d \in Committed : Id(d) = a.id /\ Intent(d) = a.intent
      BY <1>0, <2>2 DEF IInv, Vouched
    <3>2. d \in Committed' /\ Intent(d)' = a.intent /\ Id(d)' = a.id
      BY <1>0, <1>4, <3>1 DEF Kept, Committed, Intent, Id
    <3>3. answer'[c] = "done" /\ Intent(c)' = a.intent /\ Id(c)' = a.id
      BY <1>0, <2>2 DEF IInv, TypeOK, Answer, Intent, Id
    <3> QED
      BY <3>2, <3>3 DEF Truth
  <2> QED
    BY <1>0, <1>1, <2>1, <2>2 DEF IInv, TypeOK, Steps, Goto, Answer
<1>7. AnswerIsTrue'
  BY <1>0, <1>1, <1>4, <1>6, TruthKept DEF IInv, TypeOK, Goto, Answer
<1>8. RefusedIsInert'
  BY <1>0, <1>1 DEF IInv, TypeOK, Steps, RefusedIsInert, Goto, Answer
<1> QED
  BY <1>2, <1>3, <1>5, <1>7, <1>8 DEF IInv

(* A sentinel is replaced by a result that the journal vouches for. *)
LEMMA ResultStep ==
    ASSUME IInv, NEW c \in Calls, NEW d \in Committed, Id(d) = Id(c), Id(c) \in Keys,
           NEW code, \/ code = "done" /\ c = d
                     \/ code = "recovered",
           Answer(c, code), UpdateResult(Id(c), code) \/ UNCHANGED sentinel,
           UNCHANGED <<ask, journal, leaseVars, domainVars>>
    PROVE  IInv'
<1>1. TypeOK'
  BY DEF IInv, TypeOK, Answer, Answers, UpdateResult, leaseVars, domainVars
<1>2. Steps'
  BY DEF IInv, TypeOK, Steps, Answer, LeaseSteps, KeySteps, ByLease, ByKey, Id, Intent
<1>3. Kept /\ Committed' = Committed
  BY DEF Kept, Committed
<1>4. ByKey(d) /\ sentinel[Id(c)].body = Intent(d)
  BY CommandsAssumption DEF IInv, Steps, Journaled, Committed, ByLease, ByKey
<1>5. /\ \A k \in Keys : sentinel'[k].body = sentinel[k].body
      /\ \A k \in Keys : sentinel[k].state # "none" => sentinel'[k].state # "none"
      /\ \A k \in Keys : k # Id(c) => sentinel'[k] = sentinel[k]
  BY DEF IInv, TypeOK, UpdateResult
<1>6. Journaled'
  BY <1>3, <1>5 DEF IInv, Journaled, ByLease, ByKey, Id, Intent, leaseVars
<1>7. Vouched'
  <2>1. \A r \in Requests : (lease[r].state = "committed")' =>
             \E e \in Committed' : Id(e)' = r /\ Intent(e)' = lease'[r].intent
    BY <1>3 DEF IInv, Vouched, Id, Intent, leaseVars
  <2>2. \A k \in Keys : (sentinel[k].state \in {"done", "recovered"})' =>
             \E e \in Committed' : Id(e)' = k /\ Intent(e)' = sentinel'[k].body
    BY <1>3, <1>4, <1>5 DEF IInv, Vouched, Id, Intent
  <2> QED
    BY <2>1, <2>2 DEF Vouched
<1>8. OneActive' /\ Decided' /\ OneCommit'
  BY <1>3 DEF IInv, OneActive, Decided, OneCommit, Id, leaseVars, domainVars
<1>9. AnswerIsTrue'
  <2>1. Truth(c)'
    BY <1>3 DEF IInv, TypeOK, Truth, Answer, Id, Intent
  <2> QED
    BY <1>3, <2>1, TruthKept DEF IInv, TypeOK, Answer
<1>10. RefusedIsInert'
  BY DEF IInv, TypeOK, RefusedIsInert, Answer, Refusals
<1> QED
  BY <1>1, <1>2, <1>6, <1>7, <1>8, <1>9, <1>10 DEF IInv

LEMMA RecoverStep ==
    ASSUME IInv, NEW c \in Calls, Recover(c) \/ Ack(c)
    PROVE  IInv'
<1>0. /\ UNCHANGED <<ask, journal, leaseVars, domainVars>> /\ Id(c) \in Keys
      /\ aliases \subseteq Lifecycle \X Requests \X Requests
  BY DEF IInv, TypeOK, Steps, Recover, Ack, KeySteps, ByKey
<1>1. CASE Answer(c, "unack") /\ UNCHANGED sentinel
  BY <1>0, <1>1, AnswerStep DEF Answers, Refusals, leaseVars
<1>2. CASE Ack(c) /\ Answer(c, "done") /\ UpdateResult(Id(c), "done")
  BY <1>0, <1>2, ResultStep DEF IInv, Steps, Ack, Committed
<1>3. CASE /\ \E d \in Calls : Id(d) = Id(c) /\ journal[d] = "completed"
           /\ Answer(c, "recovered")
           /\ UpdateResult(Id(c), "recovered") \/ UNCHANGED sentinel
  BY <1>0, <1>3, ResultStep DEF Committed
<1> QED
  BY <1>1, <1>2, <1>3 DEF Recover, Ack

(* The command's transaction claims the key, whatever it then commits. *)
LEMMA ClaimStep ==
    ASSUME IInv, NEW c \in Calls, KeyRefuse(c) \/ KeyApply(c)
    PROVE  IInv'
<1>0. /\ at[c] = "dispatch" /\ ByKey(c) /\ ~ByLease(c) /\ journal[c] = "none" /\ KeyFree(Id(c))
      /\ Claimed(c) /\ UNCHANGED <<ask, leaseVars, domainVars>>
  BY CommandsAssumption DEF IInv, Steps, KeySteps, ByKey, ByLease, KeyRefuse, KeyApply
<1>1. \/ journal' = [journal EXCEPT ![c] = "failed"] /\ Answer(c, "refused")
      \/ journal' = [journal EXCEPT ![c] = "completed"] /\ Goto(c, "ack")
  BY DEF KeyRefuse, KeyApply
<1>2. TypeOK'
  BY <1>0, <1>1 DEF IInv, TypeOK, Answer, Goto, Answers, Refusals, Claimed, ByKey, leaseVars, domainVars
<1>3. Steps'
  BY <1>0, <1>1 DEF IInv, TypeOK, Steps, Answer, Goto, LeaseSteps, KeySteps, ByLease, ByKey, Id, Intent
<1>4. /\ Kept /\ Committed' \subseteq Committed \cup {c} /\ c \notin Committed
      /\ \A d \in Committed : Id(d) # Id(c)
  <2>1. Kept /\ Committed' \subseteq Committed \cup {c} /\ c \notin Committed
    BY <1>0, <1>1 DEF IInv, TypeOK, Kept, Committed
  <2>2. \A d \in Committed : Id(d) # Id(c)
    BY <1>0, CommandsAssumption DEF IInv, Journaled, KeyFree, Steps, Committed, ByKey, ByLease
  <2> QED
    BY <2>1, <2>2
<1>5. /\ \A k \in Keys : k # Id(c) => sentinel'[k] = sentinel[k]
      /\ sentinel'[Id(c)] = [state |-> "pending", body |-> Intent(c)]
  BY <1>0 DEF IInv, TypeOK, Claimed, ByKey
<1>6. Journaled'
  BY <1>0, <1>4, <1>5 DEF IInv, Journaled, ByLease, ByKey, Id, Intent, leaseVars
<1>7. Vouched'
  <2>0. \A e \in Committed : e \in Committed' /\ Id(e)' = Id(e) /\ Intent(e)' = Intent(e)
    BY <1>4 DEF Kept, Committed, Id, Intent
  <2>1. \A r \in Requests : (lease[r].state = "committed")' =>
             \E e \in Committed' : Id(e)' = r /\ Intent(e)' = lease'[r].intent
    BY <1>0, <2>0 DEF IInv, Vouched, leaseVars
  <2>2. \A k \in Keys : (sentinel[k].state \in {"done", "recovered"})' =>
             \E e \in Committed' : Id(e)' = k /\ Intent(e)' = sentinel'[k].body
    BY <1>5, <2>0 DEF IInv, Vouched
  <2> QED
    BY <2>1, <2>2 DEF Vouched
<1>8. OneActive' /\ Decided'
  BY <1>0 DEF IInv, OneActive, Decided, leaseVars, domainVars
<1>9. OneCommit'
  BY <1>0, <1>4 DEF IInv, OneCommit, Id
<1>10. AnswerIsTrue'
  <2>1. Truth(c)'
    BY <1>0, <1>1 DEF IInv, TypeOK, Steps, Truth, Answer, Goto
  <2> QED
    BY <1>0, <1>1, <1>4, <2>1, TruthKept DEF IInv, TypeOK, Answer, Goto
<1>11. RefusedIsInert'
  BY <1>0, <1>1 DEF IInv, TypeOK, Steps, RefusedIsInert, Answer, Goto, Refusals
<1> QED
  BY <1>2, <1>3, <1>6, <1>7, <1>8, <1>9, <1>10, <1>11 DEF IInv

-----------------------------------------------------------------------------
(* Transactions of the lifecycle commands                                  *)

(* A lease that can be taken is no committed one, and its intent is free. *)
LEMMA LeaseFacts ==
    ASSUME IInv, NEW c \in Calls, at[c] = "transact", CanLease(Id(c), Intent(c))
    PROVE  /\ ByLease(c) /\ ~ByKey(c) /\ journal[c] = "none" /\ c \notin Committed
           /\ lease[Id(c)].state \in {"none", "pending"}
           /\ \A d \in Committed : Id(d) # Id(c)
           /\ \A q \in Requests \ {Id(c)} :
                 lease[q].intent = Intent(c) => lease[q].state \notin {"pending", "committed"}
<1>1. ByLease(c) /\ ~ByKey(c) /\ journal[c] = "none" /\ c \notin Committed
  BY CommandsAssumption DEF IInv, Steps, LeaseSteps, ByLease, ByKey, Committed
<1>2. lease[Id(c)].state \in {"none", "pending"}
  BY DEF CanLease, Reacquirable, Acquirable
<1>3. \A d \in Committed : Id(d) # Id(c)
  BY <1>1, <1>2, CommandsAssumption DEF IInv, Steps, Journaled, Committed, ByLease, ByKey
<1> QED
  BY <1>1, <1>2, <1>3 DEF CanLease, IntentFree

(* The lease is taken and left in state s; s is "committed" exactly when   *)
(* the journal row is completed.                                           *)
LEMMA LeasedParts ==
    ASSUME IInv, NEW c \in Calls, at[c] = "transact", CanLease(Id(c), Intent(c)),
           NEW s \in {"pending", "failed", "committed"}, Leased(Id(c), Intent(c), s),
           \/ s # "committed" /\ journal' = journal
           \/ s # "committed" /\ journal' = [journal EXCEPT ![c] = "failed"]
           \/ s = "committed" /\ journal' = [journal EXCEPT ![c] = "completed"],
           UNCHANGED <<ask, sentinel>>
    PROVE  /\ Kept /\ Journaled' /\ Vouched' /\ OneActive' /\ OneCommit'
           /\ lease' \in [Requests -> [state : {"none", "pending", "committed", "failed"},
                                       intent : Lifecycle \cup {"none"}, lapsed : BOOLEAN]]
           /\ journal' \in [Calls -> {"none", "completed", "failed"}]
<1>0. /\ ByLease(c) /\ ~ByKey(c) /\ journal[c] = "none" /\ c \notin Committed
      /\ \A d \in Committed : Id(d) # Id(c)
      /\ \A q \in Requests \ {Id(c)} :
             lease[q].intent = Intent(c) => lease[q].state \notin {"pending", "committed"}
  BY LeaseFacts
<1>1. /\ lease' \in [Requests -> [state : {"none", "pending", "committed", "failed"},
                                  intent : Lifecycle \cup {"none"}, lapsed : BOOLEAN]]
      /\ journal' \in [Calls -> {"none", "completed", "failed"}]
      /\ \A r \in Requests : r # Id(c) => lease'[r] = lease[r]
      /\ lease'[Id(c)].state = s /\ lease'[Id(c)].intent = Intent(c)
  BY <1>0 DEF IInv, TypeOK, Leased, ByLease
<1>2. /\ Kept /\ Committed \subseteq Committed'
      /\ Committed' = IF s = "committed" THEN Committed \cup {c} ELSE Committed
      /\ \A d \in Calls : Id(d)' = Id(d) /\ Intent(d)' = Intent(d)
  BY <1>0 DEF IInv, TypeOK, Kept, Committed, Id, Intent
<1>3. Journaled'
  <2> SUFFICES ASSUME NEW d \in Committed'
               PROVE  /\ ByLease(d) => /\ lease'[Id(d)].state = "committed"
                                       /\ lease'[Id(d)].intent = Intent(d)
                      /\ ByKey(d) => /\ sentinel[Id(d)].state # "none"
                                     /\ sentinel[Id(d)].body = Intent(d)
    BY <1>2 DEF Journaled, ByLease, ByKey, Committed
  <2>1. CASE d \in Committed
    BY <1>0, <1>1, <2>1 DEF IInv, Journaled, ByLease
  <2>2. CASE d = c /\ s = "committed"
    BY <1>0, <1>1, <2>2
  <2> QED
    BY <1>2, <2>1, <2>2
<1>4. Vouched'
  <2>1. \A r \in Requests : lease'[r].state = "committed" =>
             \E e \in Committed' : Id(e) = r /\ Intent(e) = lease'[r].intent
    BY <1>1, <1>2 DEF IInv, Vouched
  <2>2. \A k \in Keys : sentinel[k].state \in {"done", "recovered"} =>
             \E e \in Committed' : Id(e) = k /\ Intent(e) = sentinel[k].body
    BY <1>2 DEF IInv, Vouched
  <2>3. \A e \in Committed' : Id(e)' = Id(e) /\ Intent(e)' = Intent(e)
    BY <1>2 DEF Committed
  <2> QED
    BY <2>1, <2>2, <2>3 DEF Vouched
<1>5. OneActive'
  BY <1>0, <1>1 DEF IInv, OneActive
<1>6. OneCommit'
  BY <1>0, <1>2 DEF IInv, OneCommit, Committed
<1> QED
  BY <1>1, <1>2, <1>3, <1>4, <1>5, <1>6

LEMMA RefuseStep ==
    ASSUME IInv, NEW c \in Calls, (\E blocked \in BOOLEAN : Refuse(c, blocked)) \/ CommitFails(c)
    PROVE  IInv'
<1> DEFINE s == IF Intent(c) = "stages.retry" THEN "pending" ELSE "failed"
<1>0. /\ at[c] = "transact" /\ CanLease(Id(c), Intent(c)) /\ Leased(Id(c), Intent(c), s)
      /\ journal' = journal \/ journal' = [journal EXCEPT ![c] = "failed"]
      /\ Answer(c, "not_actionable") \/ Answer(c, "refused") \/ Answer(c, "error")
      /\ queued' \in BOOLEAN /\ UNCHANGED <<ask, aliases, sentinel, run, approval, stalls>>
  BY DEF Refuse, CommitFails, RetryRunApplied, domainVars, IInv, TypeOK
<1>1. /\ Kept /\ Journaled' /\ Vouched' /\ OneActive' /\ OneCommit'
      /\ lease' \in [Requests -> [state : {"none", "pending", "committed", "failed"},
                                  intent : Lifecycle \cup {"none"}, lapsed : BOOLEAN]]
      /\ journal' \in [Calls -> {"none", "completed", "failed"}]
  BY <1>0, LeasedParts
<1>2. ByLease(c) /\ journal[c] = "none"
  BY <1>0, LeaseFacts
<1>3. TypeOK'
  BY <1>0, <1>1 DEF IInv, TypeOK, Answer, Answers, Refusals
<1>4. Steps'
  BY <1>0, <1>2 DEF IInv, TypeOK, Steps, Answer, LeaseSteps, KeySteps, ByLease, ByKey, Id, Intent
<1>5. Decided'
  BY <1>0, <1>2 DEF IInv, TypeOK, Decided, Leased, ByLease
<1>6. AnswerIsTrue'
  <2>1. Truth(c)'
    BY <1>0 DEF IInv, TypeOK, Truth, Answer
  <2> QED
    BY <1>0, <1>1, <2>1, TruthKept DEF IInv, TypeOK, Answer
<1>7. RefusedIsInert'
  BY <1>0, <1>2 DEF IInv, TypeOK, RefusedIsInert, Answer
<1> QED
  BY <1>1, <1>3, <1>4, <1>5, <1>6, <1>7 DEF IInv

(* The decision is made only while the approval is open, and an open       *)
(* approval has no committed decision.                                     *)
LEMMA ApplyStep ==
    ASSUME IInv, NEW c \in Calls, Apply(c)
    PROVE  IInv'
<1>0. /\ at[c] = "transact" /\ CanLease(Id(c), Intent(c)) /\ ~Refused(Intent(c), FALSE)
      /\ Applied(Intent(c)) /\ Leased(Id(c), Intent(c), "committed")
      /\ journal' = [journal EXCEPT ![c] = "completed"] /\ Goto(c, "reply")
      /\ UNCHANGED <<ask, aliases, sentinel, stalls>>
  BY DEF Apply
<1>1. /\ Kept /\ Journaled' /\ Vouched' /\ OneActive' /\ OneCommit'
      /\ lease' \in [Requests -> [state : {"none", "pending", "committed", "failed"},
                                  intent : Lifecycle \cup {"none"}, lapsed : BOOLEAN]]
      /\ journal' \in [Calls -> {"none", "completed", "failed"}]
  BY <1>0, LeasedParts
<1>2. ByLease(c) /\ journal[c] = "none"
  BY <1>0, LeaseFacts
<1>3. /\ \/ Intent(c) \notin Decisions /\ approval' = approval
         \/ Intent(c) = "runs.cancel" /\ approval = "requested" /\ approval' = "expired"
         \/ /\ Intent(c) \in Decisions /\ approval = "requested"
            /\ approval' = IF Intent(c) = "approve" THEN "granted" ELSE "rejected"
      /\ run' \in {run, "running", "cancelled"} /\ queued' \in BOOLEAN
  BY <1>0 DEF IInv, TypeOK, Applied, Refused, ResolveRefused, RetryRunApplied, RetryStageApplied,
              CancelRunApplied, ResolveApplied, Decisions
<1>4. TypeOK'
  BY <1>0, <1>1, <1>3 DEF IInv, TypeOK, Goto
<1>5. Steps'
  BY <1>0, <1>2 DEF IInv, TypeOK, Steps, Goto, LeaseSteps, KeySteps, ByLease, ByKey, Id, Intent
<1>6. Decided'
  <2>1. /\ \A r \in Requests : r # Id(c) => lease'[r] = lease[r]
        /\ lease'[Id(c)].intent = Intent(c)
    BY <1>0, <1>2 DEF IInv, TypeOK, Leased, ByLease
  <2>2. approval = "requested" =>
          \A r \in Requests : lease[r].state = "committed" => lease[r].intent \notin Decisions
    BY DEF IInv, Decided
  <2>3. "runs.cancel" \notin Decisions
    BY DEF Decisions
  <2> QED
    BY <1>3, <2>1, <2>2, <2>3 DEF IInv, Decided
<1>7. AnswerIsTrue'
  <2>1. Truth(c)'
    BY <1>0 DEF IInv, TypeOK, Steps, Truth, Goto
  <2> QED
    BY <1>0, <1>1, <2>1, TruthKept DEF IInv, TypeOK, Goto
<1>8. RefusedIsInert'
  BY <1>0 DEF IInv, TypeOK, Steps, RefusedIsInert, Goto, Refusals
<1> QED
  BY <1>1, <1>4, <1>5, <1>6, <1>7, <1>8 DEF IInv

-----------------------------------------------------------------------------
(* Faults, time and the run                                                *)

LEMMA CrashStep ==
    ASSUME IInv, Crash
    PROVE  IInv'
<1>1. TypeOK'
  BY DEF IInv, TypeOK, Crash, Answers, leaseVars, domainVars
<1>2. Steps'
  BY DEF IInv, TypeOK, Steps, Crash, InFlight, LeaseSteps, KeySteps, ByLease, ByKey, Id, Intent
<1>3. Journaled' /\ Vouched' /\ OneActive' /\ OneCommit' /\ Decided'
  BY QuietStep DEF Crash, Kept, Committed, leaseVars, domainVars
<1>4. \A c \in Calls : answer'[c] \in {answer[c], "lost"}
  BY DEF Crash
<1>5. AnswerIsTrue'
  <2>1. ask' = ask /\ journal' = journal
    BY DEF Crash
  <2> QED
    BY <1>4, <2>1 DEF IInv, AnswerIsTrue, Committed, Id, Intent
<1>6. RefusedIsInert'
  BY <1>4 DEF Crash, IInv, RefusedIsInert, Refusals
<1> QED
  BY <1>1, <1>2, <1>3, <1>5, <1>6 DEF IInv

(* Steps of time and of the run leave the calls alone. *)
LEMMA CallsAlone ==
    ASSUME IInv, UNCHANGED <<callVars, journal>>
    PROVE  Steps' /\ OneCommit' /\ AnswerIsTrue' /\ RefusedIsInert'
           /\ Kept /\ Committed' = Committed
  BY DEF IInv, Steps, OneCommit, AnswerIsTrue, RefusedIsInert, Kept, Committed, callVars,
         ByLease, ByKey, Id, Intent

LEMMA LapseStep ==
    ASSUME IInv, NEW r \in Requests, Lapse(r)
    PROVE  IInv'
<1>1. /\ \A q \in Requests : lease'[q].state = lease[q].state /\ lease'[q].intent = lease[q].intent
      /\ UNCHANGED <<callVars, journal, aliases, sentinel, domainVars>>
  BY DEF Lapse, IInv, TypeOK
<1>2. TypeOK'
  BY DEF Lapse, IInv, TypeOK, callVars, domainVars
<1>3. Steps' /\ OneCommit' /\ AnswerIsTrue' /\ RefusedIsInert' /\ Committed' = Committed
  BY <1>1, CallsAlone
<1>4. Journaled' /\ Vouched'
  BY <1>1, <1>3 DEF IInv, Journaled, Vouched, ByLease, ByKey, Id, Intent, callVars
<1>5. OneActive' /\ Decided'
  BY <1>1 DEF IInv, OneActive, Decided, domainVars
<1> QED
  BY <1>2, <1>3, <1>4, <1>5 DEF IInv

LEMMA AgeStep ==
    ASSUME IInv, NEW k \in Keys, Age(k)
    PROVE  IInv'
<1>1. /\ \A q \in Keys : /\ sentinel'[q].body = sentinel[q].body
                         /\ sentinel[q].state # "none" => sentinel'[q].state # "none"
                         /\ sentinel'[q].state \in {sentinel[q].state, "aged"}
      /\ UNCHANGED <<callVars, journal, leaseVars, domainVars>>
  BY DEF Age, IInv, TypeOK
<1>2. TypeOK'
  BY DEF Age, IInv, TypeOK, callVars, leaseVars, domainVars
<1>3. Steps' /\ OneCommit' /\ AnswerIsTrue' /\ RefusedIsInert' /\ Committed' = Committed
  BY <1>1, CallsAlone
<1>4. Journaled' /\ Vouched'
  BY <1>1, <1>3 DEF IInv, Journaled, Vouched, ByLease, ByKey, Id, Intent, callVars, leaseVars
<1>5. OneActive' /\ Decided'
  BY <1>1 DEF IInv, OneActive, Decided, leaseVars, domainVars
<1> QED
  BY <1>2, <1>3, <1>4, <1>5 DEF IInv

LEMMA RunStep ==
    ASSUME IInv, Advance \/ RunEnds
    PROVE  IInv'
<1>1. UNCHANGED <<callVars, journal, lease, aliases, sentinel, approval>>
  BY DEF Advance, RunEnds, leaseVars
<1>2. TypeOK'
  <2>1. run' \in {"waiting", "running", "completed", "cancelled"} \cup Stalled /\ queued' \in BOOLEAN
    BY DEF Advance, RunEnds, IInv, TypeOK
  <2>2. stalls' \in 0 .. MaxStalls
    BY CommandsAssumption DEF Advance, RunEnds, IInv, TypeOK
  <2> QED
    BY <1>1, <2>1, <2>2 DEF IInv, TypeOK, callVars
<1>3. Steps' /\ OneCommit' /\ AnswerIsTrue' /\ RefusedIsInert' /\ Kept
  BY <1>1, CallsAlone
<1>4. Journaled' /\ Vouched' /\ OneActive' /\ Decided'
  BY <1>1, <1>3, QuietStep
<1> QED
  BY <1>2, <1>3, <1>4 DEF IInv

LEMMA StepHolds == IInv /\ [Next]_vars => IInv'
<1> SUFFICES ASSUME IInv, [Next]_vars PROVE IInv'
  OBVIOUS
<1>1. CASE UNCHANGED vars
  <2>1. UNCHANGED <<callVars, journal, lease, aliases, sentinel, run, queued, approval, stalls>>
    BY <1>1 DEF vars, leaseVars, domainVars
  <2>2. TypeOK'
    BY <2>1 DEF IInv, TypeOK, callVars
  <2>3. Steps' /\ OneCommit' /\ AnswerIsTrue' /\ RefusedIsInert' /\ Kept
    BY <2>1, CallsAlone
  <2>4. Journaled' /\ Vouched' /\ OneActive' /\ Decided'
    BY <2>1, <2>3, QuietStep
  <2> QED
    BY <2>2, <2>3, <2>4 DEF IInv
<1>2. CASE \E c \in Calls : Call(c)
  <2>1. PICK c \in Calls : Call(c)
    BY <1>2
  <2> QED
    BY <2>1, LookUpStep, PrecheckStep, LookUpIntentStep, LookUpFailureStep, InertStep,
       RefuseStep, ApplyStep, RecoverStep, ClaimStep DEF Call
<1>3. CASE Crash
  BY <1>3, CrashStep
<1>4. CASE \E r \in Requests : Lapse(r)
  BY <1>4, LapseStep
<1>5. CASE \E k \in Keys : Age(k)
  BY <1>5, AgeStep
<1>6. CASE Advance \/ RunEnds
  BY <1>6, RunStep
<1> QED
  BY <1>1, <1>2, <1>3, <1>4, <1>5, <1>6 DEF Next

LEMMA Invariant == Spec => []IInv
  BY InitHolds, StepHolds, PTL DEF Spec

-----------------------------------------------------------------------------
(* Results                                                                 *)

(* Every reachable state is well typed. *)
THEOREM CommandsTypeCorrect == Spec => []TypeOK
<1>1. IInv => TypeOK
  BY DEF IInv
<1> QED
  BY <1>1, Invariant, PTL

(* No request id, key or lifecycle intent takes effect twice, although all *)
(* look-ups are outside the transactions: the row that a committed call    *)
(* left keeps every later transaction from its lease or key.               *)
THEOREM TakesEffectOnce == Spec => []AppliedOnce
<1>1. IInv => AppliedOnce
  <2> SUFFICES ASSUME IInv, NEW c \in Committed, NEW d \in Committed, c # d
               PROVE  Id(c) # Id(d) /\ (Intent(c) \in Lifecycle => Intent(c) # Intent(d))
    BY DEF AppliedOnce
  <2>1. Id(c) # Id(d)
    BY DEF IInv, OneCommit
  <2>2. ASSUME Intent(c) \in Lifecycle, Intent(c) = Intent(d) PROVE FALSE
    <3>1. ByLease(c) /\ ByLease(d)
      BY <2>2, CommandsAssumption DEF IInv, Steps, Committed, ByLease, ByKey
    <3>2. /\ lease[Id(c)].state = "committed" /\ lease[Id(c)].intent = Intent(c)
          /\ lease[Id(d)].state = "committed" /\ lease[Id(d)].intent = Intent(d)
      BY <3>1 DEF IInv, Journaled
    <3> QED
      BY <2>1, <2>2, <3>1, <3>2 DEF IInv, OneActive, ByLease
  <2> QED
    BY <2>1, <2>2
<1> QED
  BY <1>1, Invariant, PTL

(* Whoever is told that a command is done, by the call itself, a replay,   *)
(* an alias or the recovery, asked for what was committed.                 *)
THEOREM AnswersAreTrue == Spec => []AnswerIsTrue
<1>1. IInv => AnswerIsTrue
  BY DEF IInv
<1> QED
  BY <1>1, Invariant, PTL

(* A call that was refused committed nothing; an error promises less. *)
THEOREM RefusalsAreInert == Spec => []RefusedIsInert
<1>1. IInv => RefusedIsInert
  BY DEF IInv
<1> QED
  BY <1>1, Invariant, PTL

(* A committed call is answered from its record when it is sent again,     *)
(* although its own client may have been told of an error, or nothing: the *)
(* lease or the key it took stays its own in every later state.            *)
THEOREM CommitsAreReplayed == Spec => []CommittedIsReplayed
<1>1. IInv => CommittedIsReplayed
  <2> SUFFICES ASSUME IInv, NEW c \in Committed
               PROVE  /\ Id(c) \in Requests => Replay(lease[Id(c)], Intent(c)) = "done"
                      /\ Id(c) \in Keys => sentinel[Id(c)].state # "none"
                                           /\ sentinel[Id(c)].body = Intent(c)
    BY DEF CommittedIsReplayed
  <2>1. ByLease(c) \/ ByKey(c)
    BY DEF IInv, Steps, Committed
  <2>2. CASE ByLease(c)
    BY <2>2, CommandsAssumption DEF IInv, Journaled, ByLease, Replay
  <2>3. CASE ByKey(c)
    BY <2>3, CommandsAssumption DEF IInv, Journaled, ByKey
  <2> QED
    BY <2>1, <2>2, <2>3
<1> QED
  BY <1>1, Invariant, PTL

(* A decision that was confirmed is the approval's decision, for good. *)
THEOREM DecisionsStand == Spec => []DecisionStands
<1>1. IInv => DecisionStands
  <2> SUFFICES ASSUME IInv, NEW c \in Calls, answer[c] = "done", Intent(c) \in Decisions
               PROVE  approval = IF Intent(c) = "approve" THEN "granted" ELSE "rejected"
    BY DEF DecisionStands
  <2>1. PICK d \in Committed : Intent(d) = Intent(c)
    BY DEF IInv, AnswerIsTrue
  <2>2. ByLease(d)
    BY <2>1, CommandsAssumption DEF IInv, Steps, Committed, ByLease, ByKey, Lifecycle
  <2>3. lease[Id(d)].state = "committed" /\ lease[Id(d)].intent = Intent(c) /\ Id(d) \in Requests
    BY <2>1, <2>2 DEF IInv, Journaled, ByLease
  <2> QED
    BY <2>3 DEF IInv, Decided
<1> QED
  BY <1>1, Invariant, PTL

(* No step changes a committed lease or the stored result of a key. *)
THEOREM OutcomesAreFinal == Spec => OutcomeIsFinal
<1> DEFINE Final == /\ \A r \in Requests : lease[r].state = "committed" => lease'[r] = lease[r]
                    /\ \A k \in Keys : sentinel[k].state \in {"done", "recovered"} =>
                                           sentinel'[k] = sentinel[k]
<1>1. ASSUME TypeOK, [Next]_vars PROVE Final
  <2>1. CASE lease' = lease /\ sentinel' = sentinel
    BY <2>1
  <2>2. ASSUME NEW c \in Calls, 
                (\E b \in BOOLEAN : Refuse(c, b)) \/ Apply(c) \/ CommitFails(c) PROVE Final
    BY <1>1, <2>2 DEF TypeOK, Refuse, Apply, CommitFails, CanLease, Reacquirable, Acquirable, Leased
  <2>3. ASSUME NEW c \in Calls, Recover(c) \/ Ack(c) PROVE Final
    BY <1>1, <2>3 DEF TypeOK, Recover, Ack, UpdateResult, Unanswered, leaseVars
  <2>4. ASSUME NEW c \in Calls, KeyRefuse(c) \/ KeyApply(c) PROVE Final
    BY <1>1, <2>4 DEF TypeOK, KeyRefuse, KeyApply, KeyFree, Claimed, leaseVars
  <2>5. ASSUME NEW r \in Requests, Lapse(r) PROVE Final
    BY <1>1, <2>5 DEF TypeOK, Lapse
  <2>6. ASSUME NEW k \in Keys, Age(k) PROVE Final
    BY <1>1, <2>6 DEF TypeOK, Age, leaseVars
  <2>7. ASSUME NEW c \in Calls, Call(c) PROVE Final
    BY <2>1, <2>2, <2>3, <2>4, <2>7 DEF Call, LookUp, Precheck, LookUpIntent, LookUpFailure,
       Busy, Reply, RebuildFails, KeyBusy, Abort, leaseVars
  <2>8. CASE Crash \/ Advance \/ RunEnds \/ UNCHANGED vars
    BY <2>1, <2>8 DEF Crash, Advance, RunEnds, vars, leaseVars
  <2> QED
    BY <1>1, <2>5, <2>6, <2>7, <2>8 DEF Next
<1>2. TypeOK /\ [Next]_vars => [Final]_vars
  BY <1>1
<1> QED
  BY <1>2, CommandsTypeCorrect, PTL DEF Spec, OutcomeIsFinal
=============================================================================
