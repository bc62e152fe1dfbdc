------------------------- MODULE ActionRunnerProofs -------------------------
(***************************************************************************)
(* Theorems about ActionRunner, for any number of hosts, actions and       *)
(* requests.                                                               *)
(***************************************************************************)
EXTENDS ActionRunner, TLAPS

\* Sequences as functions: what a FIFO looks like after a put and after a get.
LEMMA Put ==
    ASSUME NEW S, NEW q \in Seq(S), NEW e \in S
    PROVE  /\ Append(q, e) \in Seq(S)
           /\ Len(Append(q, e)) = Len(q) + 1
           /\ \A i \in 1 .. Len(q) : Append(q, e)[i] = q[i]
           /\ Append(q, e)[Len(q) + 1] = e
  OBVIOUS

LEMMA Get ==
    ASSUME NEW S, NEW q \in Seq(S), q # <<>>
    PROVE  /\ Tail(q) \in Seq(S) /\ Len(q) \in Nat \ {0}
           /\ Len(Tail(q)) = Len(q) - 1
           /\ \A i \in 1 .. Len(Tail(q)) : Tail(q)[i] = q[i + 1]
           /\ Head(q) = q[1] /\ Head(q) \in S
  OBVIOUS

LEMMA Messaged ==
    ASSUME NEW j \in Requests
    PROVE  /\ Ack(j) \in Messages
           /\ \A st \in Terminal \cup {"running"} : Event(j, st) \in Messages
           /\ \A st \in Terminal \cup {"needs_sudo"} : Result(j, st) \in Messages
  BY DEF Ack, Event, Result, Messages, Open

JobStates == Terminal \cup Open \cup {"none", "pruned"}

LEMMA RecordedType ==
    ASSUME job \in [Requests -> JobStates], NEW j \in Requests,
           NEW st \in Terminal \cup Open
    PROVE  Recorded(j, st) \in [Requests -> JobStates]
  BY DEF Recorded, JobStates

\* The invariant is TypeOK and the eight conjuncts below.  Work is over when the
\* associate has said its last word on a job.
Over == Terminal \cup {"paused"}

Deciders(id)  == Takers(id, {"confirm", "reject"})
Answerers(id) == Takers(id, {"submit", "cancel"})

\* A request that has yet to dispatch has nothing on its way.
RequestOK ==
    \A r \in Requests :
        /\ pc[r] = "new" => call[r] = NoCall
        /\ pc[r] # "done" =>
              work[r] = "none" /\ job[r] = IF pc[r] = "created" THEN "queued" ELSE "none"

\* One that asks for a decision never dispatches, and what a decision takes has been
\* asked for and is off its list.
CallGood(r) ==
    LET c == call[r] IN
    /\ c.ask => c.op = "run" /\ pc[r] # "created"
    /\ c.op = "run" /\ c.listed /\ c.action \in Destructive => c.ask \/ r \in Scheduled
    /\ c.op \in {"reject", "cancel"} => pc[r] = "done"
    /\ c.op \in {"confirm", "reject"} =>
          pc[c.of] = "done" /\ c.of \notin approvals /\ call[c.of] # NoCall /\ call[c.of].ask
    /\ c.op \in {"submit", "cancel"} => work[c.of] = "paused" /\ c.of \notin prompts

CallOK == \A r \in Requests : call[r] # NoCall => CallGood(r)

\* What is pending was asked for by a request that is done, and nobody decides twice.
DecidedOnce ==
    /\ \A id \in approvals : pc[id] = "done" /\ call[id] # NoCall /\ call[id].ask
    /\ \A id \in Requests : /\ \A r, s \in Deciders(id) : r = s
                            /\ \A r, s \in Answerers(id) : r = s

\* A command is queued once, for its host, and before anything has come of it.
WireOK ==
    /\ \A h \in Hosts : \A i, k \in 1 .. Len(wire[h]) : wire[h][i] = wire[h][k] => i = k
    /\ \A h \in Hosts : \A i \in 1 .. Len(wire[h]) :
          LET j == wire[h][i] IN
          /\ pc[j] = "done" /\ work[j] = "none" /\ job[j] \notin Terminal
          /\ call[j] # NoCall /\ call[j].host = h

\* What has been queued or begun was not to be asked about, nor only taken to be dropped.
Dispatched(j) == work[j] # "none" \/ \E h \in Hosts : \E i \in 1 .. Len(wire[h]) : wire[h][i] = j

DispatchedOK ==
    \A j \in Requests : Dispatched(j) =>
        /\ call[j] # NoCall
        /\ ~call[j].ask /\ call[j].op \notin {"reject", "cancel"}

\* The messages of a job come from its host and tell its story in order: a result is
\* the last of them, and success is not followed by anything less.
Follows(m, n) ==
    m.job = n.job =>
        /\ m.kind # "result"
        /\ m.kind # "ack" /\ m.state \in Terminal /\ n.kind # "ack" => n.state \in Terminal

MessageOK(h, m) ==
    /\ call[m.job] # NoCall /\ call[m.job].host = h /\ work[m.job] # "none"
    /\ m.kind # "ack" /\ m.state \in Terminal => work[m.job] \in Terminal \cup {"claimed"}
    /\ m.state = "needs_sudo" => m.kind = "result" /\ work[m.job] = "paused"
    /\ m.kind = "result" => work[m.job] \in Over

MessagesOK ==
    \A h \in Hosts : \A i \in 1 .. Len(answers[h]) :
        /\ MessageOK(h, answers[h][i])
        /\ \A k \in i + 1 .. Len(answers[h]) : Follows(answers[h][i], answers[h][k])

Quiet(j) == \A h \in Hosts : \A i \in 1 .. Len(answers[h]) : answers[h][i].job # j

\* What the registry shows of a job agrees with the work behind it and with what is
\* still to be said of it.
JobOK ==
    \A j \in Requests :
        /\ job[j] \in Terminal =>
              /\ work[j] \notin {"begun", "running"}
              /\ \A h \in Hosts : \A i \in 1 .. Len(answers[h]) :
                    answers[h][i].job = j /\ answers[h][i].kind # "ack"
                        => answers[h][i].state \in Terminal
        /\ job[j] = "needs_sudo" =>
              /\ work[j] = "paused" /\ Quiet(j)
              /\ j \in prompts \/ (\E h \in Hosts : hook[h] = j) \/ Answerers(j) # {}

\* A prompt, a hook about to raise one and a request that took one exclude each other,
\* and none is left to raise another.
PromptOK ==
    /\ \A j \in prompts : job[j] = "needs_sudo" /\ \A h \in Hosts : hook[h] # j
    /\ \A h \in Hosts : hook[h] # NoJob =>
          /\ call[hook[h]] # NoCall /\ call[hook[h]].host = h
          /\ work[hook[h]] \in Over /\ Quiet(hook[h]) /\ Answerers(hook[h]) = {}
    /\ \A j \in Requests : Answerers(j) # {} => Quiet(j)

RunnerInv == /\ TypeOK /\ RequestOK /\ CallOK /\ DecidedOnce /\ WireOK
             /\ DispatchedOK /\ MessagesOK /\ JobOK /\ PromptOK

-----------------------------------------------------------------------------
LEMMA AgainType ==
    ASSUME NEW of \in Requests, call[of] \in Calls,
           NEW r \in Requests, NEW op \in {"confirm", "reject", "submit", "cancel"}
    PROVE  Again(r, op, of) \in Calls /\ Again(r, op, of) # NoCall
<1>1. call[of].host \in Hosts /\ call[of].action \in Actions /\ call[of].listed \in BOOLEAN
  BY DEF Calls
<1>2. Again(r, op, of) \in Calls
  BY <1>1 DEF Again, Calls
<1> QED
  BY <1>2, RunnerAssumption DEF RunnerAssumption

\* A job that has a prompt, a hook or a message has a call.
LEMMA Called ==
    ASSUME RunnerInv
    PROVE  /\ \A id \in approvals \cup prompts : id \in Requests /\ call[id] \in Calls
           /\ \A h \in Hosts : hook[h] # NoJob => hook[h] \in Requests
<1>1. \A id \in prompts : id \in Requests /\ work[id] = "paused"
  BY DEF RunnerInv, TypeOK, PromptOK, JobOK
<1>2. \A id \in prompts : call[id] # NoCall
  BY <1>1 DEF RunnerInv, DispatchedOK, Dispatched
<1>3. \A id \in approvals : id \in Requests /\ call[id] # NoCall
  BY DEF RunnerInv, TypeOK, DecidedOnce
<1> QED
  BY <1>1, <1>2, <1>3 DEF RunnerInv, TypeOK

LEMMA TypeInit == Init => TypeOK
<1> SUFFICES ASSUME Init PROVE TypeOK
  OBVIOUS
<1> USE RunnerAssumption DEF RunnerAssumption
<1>1. wire \in [Hosts -> Seq(Requests)] /\ answers \in [Hosts -> Seq(Messages)]
  BY DEF Init
<1>2. \A h \in Hosts : Len(wire[h]) <= BufferCap
  BY DEF Init
<1> QED
  BY <1>1, <1>2 DEF Init, TypeOK

LEMMA TypeStep == RunnerInv /\ [Next]_vars => TypeOK'
<1> SUFFICES ASSUME RunnerInv, [Next]_vars PROVE TypeOK'
  OBVIOUS
<1> USE RunnerAssumption DEF RunnerAssumption
<1>t. TypeOK
  BY DEF RunnerInv
<1>1. ASSUME NEW r \in Requests, NEW h \in Hosts, NEW a \in Actions, Run(r, h, a)
      PROVE  TypeOK'
  <2> DEFINE c == [op |-> "run", of |-> r, host |-> h, action |-> a,
                   ask |-> h \in listed /\ a \in Destructive /\ r \notin Scheduled,
                   listed |-> h \in listed]
  <2>a. /\ (h \in listed /\ a \in Destructive /\ r \notin Scheduled) \in BOOLEAN
        /\ (h \in listed) \in BOOLEAN
    OBVIOUS
  <2>b. c \in Calls
    BY <2>a DEF Calls
  <2>1. c \in Calls /\ c # NoCall
    BY <2>b
  <2>2. call' = [call EXCEPT ![r] = c]
    BY <1>1 DEF Run
  <2> HIDE DEF c
  <2> QED
    BY <1>1, <1>t, <2>1, <2>2 DEF Run, TypeOK, linkVars, flowVars
<1>2. ASSUME NEW r \in Requests, Proceed(r) PROVE TypeOK'
  <2>1. job' \in [Requests -> JobStates] /\ approvals' \subseteq Requests
    <3>1. job' = job \/ job' = [job EXCEPT ![r] = "queued"]
      BY <1>2 DEF Proceed
    <3>2. approvals' \subseteq approvals \cup {r}
      BY <1>2 DEF Proceed
    <3> QED
      BY <1>t, <3>1, <3>2 DEF TypeOK, JobStates, Open
  <2>2. /\ pc' \in [Requests -> {"new", "read", "taken", "created", "done"}]
        /\ \A q \in Requests : pc'[q] \in {"read", "taken", "created"} => call[q] # NoCall
    BY <1>2, <1>t DEF Proceed, TypeOK
  <2>3. UNCHANGED <<call, prompts, linkVars, flowVars>>
    BY <1>2 DEF Proceed
  <2> QED
    BY <1>t, <2>1, <2>2, <2>3 DEF TypeOK, linkVars, flowVars, JobStates
<1>3. ASSUME NEW r \in Requests, Send(r) PROVE TypeOK'
  <2>1. call[r] \in Calls /\ call[r].host \in Hosts
    BY <1>3, <1>t DEF Send, TypeOK, Calls
  <2>2. Recorded(r, "failed") \in [Requests -> JobStates]
    BY RecordedType, <1>t DEF TypeOK, JobStates, Terminal
  <2>3. Len(wire[call[r].host]) < BufferCap =>
           /\ Append(wire[call[r].host], r) \in Seq(Requests)
           /\ Len(Append(wire[call[r].host], r)) <= BufferCap
    BY <2>1, <1>t DEF TypeOK
  <2>4. wire' \in [Hosts -> Seq(Requests)] /\ \A h \in Hosts : Len(wire'[h]) <= BufferCap
    <3> DEFINE g == call[r].host
               q == Append(wire[g], r)
    <3>1. wire' = wire \/ (wire' = [wire EXCEPT ![g] = q] /\ Len(wire[g]) < BufferCap)
      BY <1>3 DEF Send
    <3>2. Len(wire[g]) < BufferCap => q \in Seq(Requests) /\ Len(q) <= BufferCap
      BY <2>3
    <3>3. wire \in [Hosts -> Seq(Requests)] /\ \A h \in Hosts : Len(wire[h]) <= BufferCap
      BY <1>t DEF TypeOK
    <3>4. CASE wire' = [wire EXCEPT ![g] = q] /\ Len(wire[g]) < BufferCap
      <4>1. q \in Seq(Requests) /\ Len(q) <= BufferCap
        BY <3>2, <3>4
      <4> HIDE DEF q, g
      <4> QED
        BY <3>3, <3>4, <4>1
    <3> QED
      BY <3>1, <3>3, <3>4
  <2>5. job' \in [Requests -> JobStates]
    BY <1>3, <1>t, <2>2 DEF Send, TypeOK, JobStates
  <2> QED
    BY <1>3, <1>t, <2>4, <2>5 DEF Send, TypeOK, linkVars, JobStates
<1>4. ASSUME NEW r \in Requests, NEW id \in Requests, Confirm(r, id) PROVE TypeOK'
  BY <1>4, <1>t, Called, AgainType DEF Confirm, TypeOK, linkVars, flowVars
<1>5. ASSUME NEW r \in Requests, NEW id \in Requests, Reject(r, id) PROVE TypeOK'
  BY <1>5, <1>t, Called, AgainType DEF Reject, TypeOK, linkVars, flowVars
<1>6. ASSUME NEW r \in Requests, NEW id \in Requests, SubmitSudo(r, id) PROVE TypeOK'
  BY <1>6, <1>t, Called, AgainType DEF SubmitSudo, TypeOK, linkVars, flowVars
<1>7. ASSUME NEW r \in Requests, NEW id \in Requests, CancelSudo(r, id) PROVE TypeOK'
  BY <1>7, <1>t, Called, AgainType DEF CancelSudo, TypeOK, linkVars, flowVars
<1>8. ASSUME NEW r \in Requests, Resume(r) PROVE TypeOK'
  BY <1>8, <1>t DEF Resume, TypeOK, linkVars, flowVars
<1>9. ASSUME NEW h \in Hosts, Register(h) PROVE TypeOK'
  BY <1>9, <1>t DEF Register, TypeOK, runnerVars, flowVars
<1>10. ASSUME NEW h \in Hosts, SetOnline(h) PROVE TypeOK'
  BY <1>10, <1>t DEF SetOnline, TypeOK, runnerVars, flowVars
<1>11. ASSUME NEW h \in Hosts, StreamEnds(h) PROVE TypeOK'
  <2>1. CutOff(h) \subseteq Requests
    <3>1. Range(wire[h]) \subseteq Requests
      BY <1>t DEF TypeOK, Range
    <3>2. \A m \in Range(answers[h]) : m.job \in Requests
      <4>1. Range(answers[h]) \subseteq Messages
        BY <1>t DEF TypeOK, Range
      <4> QED
        BY <4>1 DEF Messages
    <3> QED
      BY <3>1, <3>2 DEF CutOff, Jobs
  <2>2. /\ wire' \in [Hosts -> Seq(Requests)] /\ answers' \in [Hosts -> Seq(Messages)]
        /\ \A g \in Hosts : Len(wire'[g]) <= BufferCap
    BY <1>11, <1>t DEF StreamEnds, TypeOK
  <2> QED
    BY <1>11, <1>t, <2>1, <2>2 DEF StreamEnds, TypeOK, runnerVars
<1>12. ASSUME NEW h \in Hosts, RemoveHost(h) PROVE TypeOK'
  BY <1>12, <1>t DEF RemoveHost, TypeOK, runnerVars, flowVars
<1>13. ASSUME NEW h \in Hosts, Begin(h) PROVE TypeOK'
  <2>1. wire[h] \in Seq(Requests) /\ wire[h] # <<>> /\ Len(wire[h]) <= BufferCap
    BY <1>13, <1>t DEF Begin, TypeOK
  <2>2. /\ Head(wire[h]) \in Requests /\ Tail(wire[h]) \in Seq(Requests)
        /\ Len(Tail(wire[h])) <= BufferCap
    BY <2>1, Get
  <2>3. answers' \in [Hosts -> Seq(Messages)]
    BY <1>13, <1>t, <2>2, Messaged, Put DEF Begin, Says, TypeOK
  <2>4. wire' \in [Hosts -> Seq(Requests)] /\ \A g \in Hosts : Len(wire'[g]) <= BufferCap
    BY <1>13, <1>t, <2>2 DEF Begin, TypeOK
  <2> QED
    BY <1>13, <1>t, <2>2, <2>3, <2>4 DEF Begin, TypeOK, runnerVars, linkVars
<1>14. ASSUME NEW h \in Hosts, NEW j \in Requests, Execute(h, j) PROVE TypeOK'
  <2>1. PICK m \in Messages : Says(h, m)
    BY <1>14, Messaged DEF Execute
  <2>2. answers' \in [Hosts -> Seq(Messages)]
    BY <1>t, <2>1, Put DEF Says, TypeOK
  <2>3. work' \in [Requests -> {"none", "begun", "paused", "running", "claimed"} \cup Terminal]
    BY <1>14, <1>t DEF Execute, TypeOK
  <2> QED
    BY <1>14, <1>t, <2>2, <2>3 DEF Execute, TypeOK, runnerVars, linkVars
<1>15. ASSUME NEW h \in Hosts, NEW j \in Requests, Claim(h, j) PROVE TypeOK'
  <2>1. answers' \in [Hosts -> Seq(Messages)]
    BY <1>15, <1>t, Messaged, Put DEF Claim, Says, TypeOK, Terminal
  <2> QED
    BY <1>15, <1>t, <2>1 DEF Claim, TypeOK, runnerVars, linkVars
<1>16. ASSUME NEW h \in Hosts, NEW j \in Requests, Finish(h, j) PROVE TypeOK'
  <2>1. PICK st \in Terminal : /\ work' = [work EXCEPT ![j] = st]
                               /\ Says(h, Result(j, st))
    BY <1>16 DEF Finish
  <2>2. answers' \in [Hosts -> Seq(Messages)]
    BY <2>1, <1>t, Messaged, Put DEF Says, TypeOK
  <2> QED
    BY <1>16, <1>t, <2>1, <2>2 DEF Finish, TypeOK, runnerVars, linkVars
<1>17. ASSUME NEW h \in Hosts, Handle(h) PROVE TypeOK'
  <2> DEFINE m == Head(answers[h])
  <2>1. m \in Messages /\ Tail(answers[h]) \in Seq(Messages)
    BY <1>17, <1>t, Get DEF Handle, TypeOK
  <2>2. m.job \in Requests /\ m.state \in Terminal \cup Open
    BY <2>1 DEF Messages
  <2>3. answers' \in [Hosts -> Seq(Messages)]
    BY <1>17, <1>t, <2>1 DEF Handle, TypeOK
  <2>4. job' \in [Requests -> JobStates]
    BY <1>17, <1>t, <2>2, RecordedType DEF Handle, TypeOK, JobStates
  <2>5. hook' \in [Hosts -> Requests \cup {NoJob}]
    BY <1>17, <1>t, <2>2 DEF Handle, TypeOK
  <2> QED
    BY <1>17, <1>t, <2>3, <2>4, <2>5 DEF Handle, TypeOK, runnerVars, linkVars, JobStates
<1>18. ASSUME NEW h \in Hosts, ResultHook(h) PROVE TypeOK'
  BY <1>18, <1>t, Called DEF ResultHook, TypeOK, linkVars
<1>19. CASE Prune
  BY <1>19, <1>t DEF Prune, TypeOK, runnerVars, linkVars, flowVars
<1>20. CASE Restart
  <2>1. \A h \in Hosts : CutOff(h) \subseteq Requests
    <3> TAKE h \in Hosts
    <3>1. Range(wire[h]) \subseteq Requests
      BY <1>t DEF TypeOK, Range
    <3>2. \A m \in Range(answers[h]) : m.job \in Requests
      <4>1. Range(answers[h]) \subseteq Messages
        BY <1>t DEF TypeOK, Range
      <4> QED
        BY <4>1 DEF Messages
    <3> QED
      BY <3>1, <3>2 DEF CutOff, Jobs
  <2>2. /\ wire' \in [Hosts -> Seq(Requests)] /\ answers' \in [Hosts -> Seq(Messages)]
        /\ \A g \in Hosts : Len(wire'[g]) <= BufferCap
    BY <1>20 DEF Restart
  <2>3. lost' \subseteq Requests
    BY <1>20, <1>t, <2>1 DEF Restart, TypeOK
  <2>4. \A r \in Requests : pc'[r] \in {"new", "done"}
    BY <1>20 DEF Restart
  <2> QED
    BY <1>20, <1>t, <2>2, <2>3, <2>4 DEF Restart, TypeOK
<1>21. CASE UNCHANGED vars
  BY <1>21, <1>t DEF vars, runnerVars, linkVars, flowVars, TypeOK
<1> QED
  BY <1>1, <1>2, <1>3, <1>4, <1>5, <1>6, <1>7, <1>8, <1>9, <1>10, <1>11, <1>12, <1>13,
     <1>14, <1>15, <1>16, <1>17, <1>18, <1>19, <1>20, <1>21
     DEF Next, RequestStep, HostStep

-----------------------------------------------------------------------------
\* The oldest command and the oldest message of a host.
LEMMA WireHead ==
    ASSUME RunnerInv, NEW h \in Hosts, wire[h] # <<>>, NEW j, j = Head(wire[h])
    PROVE  /\ j \in Requests /\ work[j] = "none" /\ pc[j] = "done"
           /\ job[j] \notin Terminal /\ call[j] # NoCall /\ call[j].host = h
           /\ Dispatched(j)
<1>1. /\ wire[h] \in Seq(Requests) /\ Len(wire[h]) \in Nat \ {0} /\ j = wire[h][1]
      /\ j \in Requests
  BY Get DEF RunnerInv, TypeOK
<1>2. 1 \in 1 .. Len(wire[h])
  BY <1>1
<1> QED
  BY <1>1, <1>2 DEF RunnerInv, WireOK, Dispatched

LEMMA AnswerHead ==
    ASSUME RunnerInv, NEW h \in Hosts, answers[h] # <<>>, NEW m, m = Head(answers[h])
    PROVE  /\ m \in Messages /\ MessageOK(h, m) /\ ~Quiet(m.job)
           /\ Tail(answers[h]) \in Seq(Messages)
           /\ Len(Tail(answers[h])) + 1 = Len(answers[h])
           /\ \A k \in 1 .. Len(Tail(answers[h])) :
                 /\ k + 1 \in 1 .. Len(answers[h])
                 /\ Tail(answers[h])[k] = answers[h][k + 1]
                 /\ Follows(m, Tail(answers[h])[k])
<1>1. /\ answers[h] \in Seq(Messages) /\ Len(answers[h]) \in Nat \ {0}
      /\ m = answers[h][1] /\ m \in Messages
      /\ Tail(answers[h]) \in Seq(Messages)
      /\ Len(Tail(answers[h])) = Len(answers[h]) - 1
      /\ \A k \in 1 .. Len(Tail(answers[h])) : Tail(answers[h])[k] = answers[h][k + 1]
  BY Get DEF RunnerInv, TypeOK
<1>2. 1 \in 1 .. Len(answers[h])
  BY <1>1
<1>3. MessageOK(h, m) /\ \A k \in 2 .. Len(answers[h]) : Follows(m, answers[h][k])
  BY <1>1, <1>2 DEF RunnerInv, MessagesOK
<1>4. ~Quiet(m.job)
  BY <1>1, <1>2 DEF Quiet
<1>5. \A k \in 1 .. Len(Tail(answers[h])) :
         k + 1 \in 1 .. Len(answers[h]) /\ k + 1 \in 2 .. Len(answers[h])
  BY <1>1
<1> QED
  BY <1>1, <1>3, <1>4, <1>5

\* What no step takes back: a call once made, a request that is done, a command
\* that has been begun, an answer the associate has given.
Kept ==
    \A q \in Requests :
        /\ call[q] # NoCall => call'[q] = call[q]
        /\ pc[q] = "done" => pc'[q] = "done"
        /\ work[q] # "none" => work'[q] # "none"
        /\ work[q] \in Over => work'[q] = work[q]
        /\ work[q] \in Terminal \cup {"claimed"} => work'[q] \in Terminal \cup {"claimed"}

LEMMA KeptStep == RunnerInv /\ [Next]_vars => Kept
<1> SUFFICES ASSUME RunnerInv, [Next]_vars PROVE Kept
  OBVIOUS
<1>i. TypeOK /\ RequestOK
  BY DEF RunnerInv
<1>1. ASSUME NEW r \in Requests, NEW h \in Hosts, NEW a \in Actions, Run(r, h, a) PROVE Kept
  BY <1>1, <1>i DEF Run, linkVars, flowVars, Kept, TypeOK, RequestOK, Over, Terminal
<1>2. ASSUME NEW r \in Requests, Proceed(r) PROVE Kept
  BY <1>2, <1>i DEF Proceed, linkVars, flowVars, Kept, TypeOK, RequestOK, Over, Terminal
<1>3. ASSUME NEW r \in Requests, Send(r) PROVE Kept
  BY <1>3, <1>i DEF Send, linkVars, Kept, TypeOK, RequestOK, Over, Terminal
<1>4. ASSUME NEW r \in Requests, NEW id \in Requests, Confirm(r, id) PROVE Kept
  BY <1>4, <1>i DEF Confirm, linkVars, flowVars, Kept, TypeOK, RequestOK, Over, Terminal
<1>5. ASSUME NEW r \in Requests, NEW id \in Requests, Reject(r, id) PROVE Kept
  BY <1>5, <1>i DEF Reject, linkVars, flowVars, Kept, TypeOK, RequestOK, Over, Terminal
<1>6. ASSUME NEW r \in Requests, NEW id \in Requests, SubmitSudo(r, id) PROVE Kept
  BY <1>6, <1>i DEF SubmitSudo, linkVars, flowVars, Kept, TypeOK, RequestOK, Over, Terminal
<1>7. ASSUME NEW r \in Requests, NEW id \in Requests, CancelSudo(r, id) PROVE Kept
  BY <1>7, <1>i DEF CancelSudo, linkVars, flowVars, Kept, TypeOK, RequestOK, Over, Terminal
<1>8. ASSUME NEW r \in Requests, Resume(r) PROVE Kept
  BY <1>8, <1>i DEF Resume, linkVars, flowVars, Kept, TypeOK, RequestOK, Over, Terminal
<1>9. ASSUME NEW h \in Hosts, Register(h) PROVE Kept
  BY <1>9, <1>i DEF Register, runnerVars, flowVars, Kept, TypeOK, RequestOK, Over, Terminal
<1>10. ASSUME NEW h \in Hosts, SetOnline(h) PROVE Kept
  BY <1>10, <1>i DEF SetOnline, runnerVars, flowVars, Kept, TypeOK, RequestOK, Over, Terminal
<1>11. ASSUME NEW h \in Hosts, StreamEnds(h) PROVE Kept
  BY <1>11, <1>i DEF StreamEnds, runnerVars, Kept, TypeOK, RequestOK, Over, Terminal
<1>12. ASSUME NEW h \in Hosts, RemoveHost(h) PROVE Kept
  BY <1>12, <1>i DEF RemoveHost, runnerVars, flowVars, Kept, TypeOK, RequestOK, Over, Terminal
<1>13. ASSUME NEW h \in Hosts, Begin(h) PROVE Kept
  BY <1>13, <1>i, WireHead DEF Begin, runnerVars, linkVars, Kept, TypeOK, Over, Terminal
<1>14. ASSUME NEW h \in Hosts, NEW j \in Requests, Execute(h, j) PROVE Kept
  BY <1>14, <1>i DEF Execute, runnerVars, linkVars, Kept, TypeOK, RequestOK, Over, Terminal
<1>15. ASSUME NEW h \in Hosts, NEW j \in Requests, Claim(h, j) PROVE Kept
  BY <1>15, <1>i DEF Claim, runnerVars, linkVars, Kept, TypeOK, RequestOK, Over, Terminal
<1>16. ASSUME NEW h \in Hosts, NEW j \in Requests, Finish(h, j) PROVE Kept
  BY <1>16, <1>i DEF Finish, runnerVars, linkVars, Kept, TypeOK, RequestOK, Over, Terminal
<1>17. ASSUME NEW h \in Hosts, Handle(h) PROVE Kept
  BY <1>17, <1>i DEF Handle, runnerVars, linkVars, Kept, TypeOK, RequestOK, Over, Terminal
<1>18. ASSUME NEW h \in Hosts, ResultHook(h) PROVE Kept
  BY <1>18, <1>i DEF ResultHook, linkVars, Kept, TypeOK, RequestOK, Over, Terminal
<1>19. CASE Prune
  BY <1>19, <1>i DEF Prune, runnerVars, linkVars, flowVars, Kept, TypeOK, RequestOK, Over, Terminal
<1>20. CASE Restart
  BY <1>20, <1>i DEF Restart, Kept, TypeOK, RequestOK, Over, Terminal
<1>21. CASE UNCHANGED vars
  BY <1>21, <1>i DEF vars, runnerVars, linkVars, flowVars, Kept, TypeOK, RequestOK, Over, Terminal
<1> QED
  BY <1>1, <1>2, <1>3, <1>4, <1>5, <1>6, <1>7, <1>8, <1>9, <1>10, <1>11,
     <1>12, <1>13, <1>14, <1>15, <1>16, <1>17, <1>18, <1>19, <1>20, <1>21
     DEF Next, RequestStep, HostStep

\* What a step may add: an approval by a request that had not dispatched, a prompt by
\* a hook, a job by a request that need not ask, one call on what is pending.
NewCall(q) == call[q] = NoCall /\ call'[q] # NoCall

Gained ==
    /\ \A id \in approvals' \ approvals :
          id \in Requests /\ pc[id] = "read" /\ call[id].ask /\ pc'[id] = "done"
    /\ \A id \in prompts' \ prompts : \E h \in Hosts : hook[h] = id /\ id # NoJob /\ job[id] = "needs_sudo"
    /\ \A q \in Requests : pc'[q] = "created" /\ pc[q] # "created" => pc[q] = "read" /\ ~call[q].ask
    /\ \A q \in Requests : NewCall(q) =>
          /\ call'[q].op \in {"confirm", "reject"} => call'[q].of \in approvals
          /\ call'[q].op \in {"submit", "cancel"} => call'[q].of \in prompts
          /\ \A p \in Requests : NewCall(p) => p = q

LEMMA GainedStep == RunnerInv /\ [Next]_vars => Gained
<1> SUFFICES ASSUME RunnerInv, [Next]_vars PROVE Gained
  OBVIOUS
<1>i. TypeOK
  BY DEF RunnerInv
<1>1. ASSUME NEW r \in Requests, NEW h \in Hosts, NEW a \in Actions, Run(r, h, a) PROVE Gained
  BY <1>1, <1>i DEF Run, linkVars, flowVars, Gained, NewCall, TypeOK
<1>2. ASSUME NEW r \in Requests, Proceed(r) PROVE Gained
  BY <1>2, <1>i DEF Proceed, linkVars, flowVars, Gained, NewCall, TypeOK
<1>3. ASSUME NEW r \in Requests, Send(r) PROVE Gained
  BY <1>3, <1>i DEF Send, linkVars, Gained, NewCall, TypeOK
<1>4. ASSUME NEW r \in Requests, NEW id \in Requests, Confirm(r, id) PROVE Gained
  <2>1. call' = [call EXCEPT ![r] = Again(r, "confirm", id)] /\ id \in approvals
    BY <1>4 DEF Confirm
  <2>2. UNCHANGED prompts /\ pc' = [pc EXCEPT ![r] = "taken"] /\ approvals' \subseteq approvals
    BY <1>4 DEF Confirm, linkVars, flowVars
  <2>3. \A p \in Requests : NewCall(p) => p = r /\ call'[p] = Again(r, "confirm", id)
    BY <2>1, <1>i DEF NewCall, TypeOK
  <2>4. Again(r, "confirm", id).op = "confirm" /\ Again(r, "confirm", id).of = id
    BY DEF Again
  <2>5. \A q \in Requests : pc'[q] = "created" => pc[q] = "created"
    BY <2>2, <1>i DEF TypeOK
  <2> QED
    BY <2>1, <2>2, <2>3, <2>4, <2>5 DEF Gained
<1>5. ASSUME NEW r \in Requests, NEW id \in Requests, Reject(r, id) PROVE Gained
  <2>1. call' = [call EXCEPT ![r] = Again(r, "reject", id)] /\ id \in approvals
    BY <1>5 DEF Reject
  <2>2. UNCHANGED prompts /\ pc' = [pc EXCEPT ![r] = "done"] /\ approvals' \subseteq approvals
    BY <1>5 DEF Reject, linkVars, flowVars
  <2>3. \A p \in Requests : NewCall(p) => p = r /\ call'[p] = Again(r, "reject", id)
    BY <2>1, <1>i DEF NewCall, TypeOK
  <2>4. Again(r, "reject", id).op = "reject" /\ Again(r, "reject", id).of = id
    BY DEF Again
  <2>5. \A q \in Requests : pc'[q] = "created" => pc[q] = "created"
    BY <2>2, <1>i DEF TypeOK
  <2> QED
    BY <2>1, <2>2, <2>3, <2>4, <2>5 DEF Gained
<1>6. ASSUME NEW r \in Requests, NEW id \in Requests, SubmitSudo(r, id) PROVE Gained
  <2>1. call' = [call EXCEPT ![r] = Again(r, "submit", id)] /\ id \in prompts
    BY <1>6 DEF SubmitSudo
  <2>2. UNCHANGED approvals /\ pc' = [pc EXCEPT ![r] = "taken"] /\ prompts' \subseteq prompts
    BY <1>6 DEF SubmitSudo, linkVars, flowVars
  <2>3. \A p \in Requests : NewCall(p) => p = r /\ call'[p] = Again(r, "submit", id)
    BY <2>1, <1>i DEF NewCall, TypeOK
  <2>4. Again(r, "submit", id).op = "submit" /\ Again(r, "submit", id).of = id
    BY DEF Again
  <2>5. \A q \in Requests : pc'[q] = "created" => pc[q] = "created"
    BY <2>2, <1>i DEF TypeOK
  <2> QED
    BY <2>1, <2>2, <2>3, <2>4, <2>5 DEF Gained
<1>7. ASSUME NEW r \in Requests, NEW id \in Requests, CancelSudo(r, id) PROVE Gained
  <2>1. call' = [call EXCEPT ![r] = Again(r, "cancel", id)] /\ id \in prompts
    BY <1>7 DEF CancelSudo
  <2>2. UNCHANGED approvals /\ pc' = [pc EXCEPT ![r] = "done"] /\ prompts' \subseteq prompts
    BY <1>7 DEF CancelSudo, linkVars, flowVars
  <2>3. \A p \in Requests : NewCall(p) => p = r /\ call'[p] = Again(r, "cancel", id)
    BY <2>1, <1>i DEF NewCall, TypeOK
  <2>4. Again(r, "cancel", id).op = "cancel" /\ Again(r, "cancel", id).of = id
    BY DEF Again
  <2>5. \A q \in Requests : pc'[q] = "created" => pc[q] = "created"
    BY <2>2, <1>i DEF TypeOK
  <2> QED
    BY <2>1, <2>2, <2>3, <2>4, <2>5 DEF Gained
<1>8. ASSUME NEW r \in Requests, Resume(r) PROVE Gained
  BY <1>8, <1>i DEF Resume, linkVars, flowVars, Gained, NewCall, TypeOK
<1>9. ASSUME NEW h \in Hosts, Register(h) PROVE Gained
  BY <1>9, <1>i DEF Register, runnerVars, flowVars, Gained, NewCall, TypeOK
<1>10. ASSUME NEW h \in Hosts, SetOnline(h) PROVE Gained
  BY <1>10, <1>i DEF SetOnline, runnerVars, flowVars, Gained, NewCall, TypeOK
<1>11. ASSUME NEW h \in Hosts, StreamEnds(h) PROVE Gained
  BY <1>11, <1>i DEF StreamEnds, runnerVars, Gained, NewCall, TypeOK
<1>12. ASSUME NEW h \in Hosts, RemoveHost(h) PROVE Gained
  BY <1>12, <1>i DEF RemoveHost, runnerVars, flowVars, Gained, NewCall, TypeOK
<1>13. ASSUME NEW h \in Hosts, Begin(h) PROVE Gained
  BY <1>13, <1>i DEF Begin, runnerVars, linkVars, Gained, NewCall, TypeOK
<1>14. ASSUME NEW h \in Hosts, NEW j \in Requests, Execute(h, j) PROVE Gained
  BY <1>14, <1>i DEF Execute, runnerVars, linkVars, Gained, NewCall, TypeOK
<1>15. ASSUME NEW h \in Hosts, NEW j \in Requests, Claim(h, j) PROVE Gained
  BY <1>15, <1>i DEF Claim, runnerVars, linkVars, Gained, NewCall, TypeOK
<1>16. ASSUME NEW h \in Hosts, NEW j \in Requests, Finish(h, j) PROVE Gained
  BY <1>16, <1>i DEF Finish, runnerVars, linkVars, Gained, NewCall, TypeOK
<1>17. ASSUME NEW h \in Hosts, Handle(h) PROVE Gained
  BY <1>17, <1>i DEF Handle, runnerVars, linkVars, Gained, NewCall, TypeOK
<1>18. ASSUME NEW h \in Hosts, ResultHook(h) PROVE Gained
  BY <1>18, <1>i DEF ResultHook, linkVars, Gained, NewCall, TypeOK
<1>19. CASE Prune
  BY <1>19, <1>i DEF Prune, runnerVars, linkVars, flowVars, Gained, NewCall, TypeOK
<1>20. CASE Restart
  BY <1>20, <1>i DEF Restart, Gained, NewCall, TypeOK
<1>21. CASE UNCHANGED vars
  BY <1>21, <1>i DEF vars, runnerVars, linkVars, flowVars, Gained, NewCall, TypeOK
<1> QED
  BY <1>1, <1>2, <1>3, <1>4, <1>5, <1>6, <1>7, <1>8, <1>9, <1>10, <1>11,
     <1>12, <1>13, <1>14, <1>15, <1>16, <1>17, <1>18, <1>19, <1>20, <1>21
     DEF Next, RequestStep, HostStep

LEMMA RequestStepOK == RunnerInv /\ [Next]_vars => RequestOK'
<1> SUFFICES ASSUME RunnerInv, [Next]_vars PROVE RequestOK'
  OBVIOUS
<1>i. TypeOK /\ RequestOK
  BY DEF RunnerInv
<1>1. ASSUME NEW r \in Requests, NEW h \in Hosts, NEW a \in Actions, Run(r, h, a) PROVE RequestOK'
  BY <1>1, <1>i DEF Run, linkVars, flowVars, TypeOK, RequestOK
<1>2. ASSUME NEW r \in Requests, Proceed(r) PROVE RequestOK'
  BY <1>2, <1>i DEF Proceed, linkVars, flowVars, TypeOK, RequestOK
<1>3. ASSUME NEW r \in Requests, Send(r) PROVE RequestOK'
  <2>1. \A q \in Requests : q # r => pc'[q] = pc[q] /\ job'[q] = job[q]
    BY <1>3, <1>i DEF Send, Recorded, TypeOK
  <2>2. pc'[r] = "done" /\ UNCHANGED <<call, work>>
    BY <1>3, <1>i DEF Send, TypeOK
  <2> QED
    BY <1>i, <2>1, <2>2 DEF RequestOK
<1>4. ASSUME NEW r \in Requests, NEW id \in Requests, Confirm(r, id) PROVE RequestOK'
  BY <1>4, <1>i DEF Confirm, linkVars, flowVars, TypeOK, RequestOK
<1>5. ASSUME NEW r \in Requests, NEW id \in Requests, Reject(r, id) PROVE RequestOK'
  BY <1>5, <1>i DEF Reject, linkVars, flowVars, TypeOK, RequestOK
<1>6. ASSUME NEW r \in Requests, NEW id \in Requests, SubmitSudo(r, id) PROVE RequestOK'
  BY <1>6, <1>i DEF SubmitSudo, linkVars, flowVars, TypeOK, RequestOK
<1>7. ASSUME NEW r \in Requests, NEW id \in Requests, CancelSudo(r, id) PROVE RequestOK'
  BY <1>7, <1>i DEF CancelSudo, linkVars, flowVars, TypeOK, RequestOK
<1>8. ASSUME NEW r \in Requests, Resume(r) PROVE RequestOK'
  BY <1>8, <1>i DEF Resume, linkVars, flowVars, TypeOK, RequestOK
<1>9. ASSUME NEW h \in Hosts, Register(h) PROVE RequestOK'
  BY <1>9, <1>i DEF Register, runnerVars, flowVars, TypeOK, RequestOK
<1>10. ASSUME NEW h \in Hosts, SetOnline(h) PROVE RequestOK'
  BY <1>10, <1>i DEF SetOnline, runnerVars, flowVars, TypeOK, RequestOK
<1>11. ASSUME NEW h \in Hosts, StreamEnds(h) PROVE RequestOK'
  BY <1>11, <1>i DEF StreamEnds, runnerVars, TypeOK, RequestOK
<1>12. ASSUME NEW h \in Hosts, RemoveHost(h) PROVE RequestOK'
  BY <1>12, <1>i DEF RemoveHost, runnerVars, flowVars, TypeOK, RequestOK
<1>13. ASSUME NEW h \in Hosts, Begin(h) PROVE RequestOK'
  <2>1. \A q \in Requests : pc[q] # "done" => work'[q] = work[q]
    BY <1>13, <1>i, WireHead DEF Begin, TypeOK
  <2> QED
    BY <1>13, <1>i, <2>1 DEF Begin, RequestOK, runnerVars
<1>14. ASSUME NEW h \in Hosts, NEW j \in Requests, Execute(h, j) PROVE RequestOK'
  BY <1>14, <1>i DEF Execute, runnerVars, linkVars, TypeOK, RequestOK
<1>15. ASSUME NEW h \in Hosts, NEW j \in Requests, Claim(h, j) PROVE RequestOK'
  BY <1>15, <1>i DEF Claim, runnerVars, linkVars, TypeOK, RequestOK
<1>16. ASSUME NEW h \in Hosts, NEW j \in Requests, Finish(h, j) PROVE RequestOK'
  BY <1>16, <1>i DEF Finish, runnerVars, linkVars, TypeOK, RequestOK
<1>17. ASSUME NEW h \in Hosts, Handle(h) PROVE RequestOK'
  <2> DEFINE m == Head(answers[h])
  <2>1. m.job \in Requests /\ work[m.job] # "none"
    BY <1>17, AnswerHead DEF Handle, MessageOK, Messages
  <2>2. \A q \in Requests : q # m.job => job'[q] = job[q]
    BY <1>17, <1>i DEF Handle, Recorded, TypeOK
  <2> QED
    BY <1>17, <1>i, <2>1, <2>2 DEF Handle, RequestOK, runnerVars
<1>18. ASSUME NEW h \in Hosts, ResultHook(h) PROVE RequestOK'
  BY <1>18, <1>i DEF ResultHook, linkVars, TypeOK, RequestOK
<1>19. CASE Prune
  <2>1. \A q \in Requests : pc[q] # "done" => job'[q] = job[q]
    BY <1>19, <1>i DEF Prune, Prunable, Aged, TypeOK
  <2> QED
    BY <1>19, <1>i, <2>1 DEF Prune, RequestOK, runnerVars, flowVars
<1>20. CASE Restart
  BY <1>20, <1>i DEF Restart, TypeOK, RequestOK
<1>21. CASE UNCHANGED vars
  BY <1>21, <1>i DEF vars, runnerVars, linkVars, flowVars, TypeOK, RequestOK
<1> QED
  BY <1>1, <1>2, <1>3, <1>4, <1>5, <1>6, <1>7, <1>8, <1>9, <1>10, <1>11,
     <1>12, <1>13, <1>14, <1>15, <1>16, <1>17, <1>18, <1>19, <1>20, <1>21
     DEF Next, RequestStep, HostStep

LEMMA CallStep == RunnerInv /\ [Next]_vars => CallOK'
<1> SUFFICES ASSUME RunnerInv, [Next]_vars, NEW q \in Requests, call'[q] # NoCall
             PROVE  CallGood(q)'
  BY DEF CallOK
<1>i. TypeOK /\ RequestOK /\ CallOK /\ DecidedOnce /\ PromptOK
  BY DEF RunnerInv
<1>k. Kept /\ Gained
  BY KeptStep, GainedStep
<1>1. CASE call[q] # NoCall
  <2> DEFINE c == call[q]
  <2>1. call'[q] = c /\ CallGood(q) /\ c \in Calls /\ c.of \in Requests
    BY <1>1, <1>i, <1>k DEF CallOK, Kept, TypeOK, Calls
  <2>2. c.ask => c.op = "run" /\ pc'[q] # "created"
    BY <2>1, <1>k DEF CallGood, Gained
  <2>3. c.op \in {"reject", "cancel"} => pc'[q] = "done"
    BY <2>1, <1>k DEF CallGood, Kept
  <2>4. c.op \in {"confirm", "reject"} =>
           pc'[c.of] = "done" /\ c.of \notin approvals' /\ call'[c.of] # NoCall /\ call'[c.of].ask
    BY <2>1, <1>k DEF CallGood, Kept, Gained
  <2>5. c.op \in {"submit", "cancel"} => work'[c.of] = "paused" /\ c.of \notin prompts'
    <3> SUFFICES ASSUME c.op \in {"submit", "cancel"}
                 PROVE  work'[c.of] = "paused" /\ c.of \notin prompts'
      OBVIOUS
    <3>1. work'[c.of] = "paused" /\ c.of \notin prompts
      BY <2>1, <1>k DEF CallGood, Kept, Over
    <3>2. q \in Answerers(c.of)
      BY <1>1 DEF Answerers, Takers
    <3>3. \A h \in Hosts : hook[h] # NoJob => hook[h] # c.of
      BY <3>2, <1>i DEF PromptOK
    <3> QED
      BY <3>1, <3>3, <1>k DEF Gained
  <2> QED
    BY <2>1, <2>2, <2>3, <2>4, <2>5 DEF CallGood
<1>2. CASE call[q] = NoCall
  <2>1. ASSUME NEW r \in Requests, NEW h \in Hosts, NEW a \in Actions, Run(r, h, a)
        PROVE  CallGood(q)'
    BY <2>1, <1>2, <1>i DEF Run, TypeOK, CallGood
  <2>2. ASSUME NEW r \in Requests, NEW id \in Requests, Confirm(r, id)
        PROVE  CallGood(q)'
    BY <2>2, <1>2, <1>i DEF Confirm, Again, TypeOK, CallGood, DecidedOnce
  <2>3. ASSUME NEW r \in Requests, NEW id \in Requests, Reject(r, id)
        PROVE  CallGood(q)'
    BY <2>3, <1>2, <1>i DEF Reject, Again, TypeOK, CallGood, DecidedOnce
  <2>4. ASSUME NEW r \in Requests, NEW id \in Requests, id \in prompts
        PROVE  work[id] = "paused"
    BY <2>4, <1>i DEF RunnerInv, PromptOK, JobOK
  <2>5. ASSUME NEW r \in Requests, NEW id \in Requests, SubmitSudo(r, id)
        PROVE  CallGood(q)'
    BY <2>4, <2>5, <1>2, <1>i DEF SubmitSudo, Again, TypeOK, CallGood, flowVars
  <2>6. ASSUME NEW r \in Requests, NEW id \in Requests, CancelSudo(r, id)
        PROVE  CallGood(q)'
    BY <2>4, <2>6, <1>2, <1>i DEF CancelSudo, Again, TypeOK, CallGood, flowVars
  <2>7. CASE UNCHANGED call
    BY <2>7, <1>2
  <2>8. \/ UNCHANGED call
        \/ \E r \in Requests :
              \/ \E h \in Hosts, a \in Actions : Run(r, h, a)
              \/ \E id \in Requests : \/ Confirm(r, id) \/ Reject(r, id)
                                      \/ SubmitSudo(r, id) \/ CancelSudo(r, id)
    BY DEF Next, RequestStep, HostStep, Proceed, Send, Resume, Register, SetOnline, StreamEnds,
           RemoveHost, Begin, Execute, Claim, Finish, Handle, ResultHook, Prune, Restart,
           runnerVars, vars
  <2> QED
    BY <2>1, <2>2, <2>3, <2>5, <2>6, <2>7, <2>8
<1> QED
  BY <1>1, <1>2

LEMMA DecidedStep == RunnerInv /\ [Next]_vars => DecidedOnce'
<1> SUFFICES ASSUME RunnerInv, [Next]_vars PROVE DecidedOnce'
  OBVIOUS
<1>i. TypeOK /\ CallOK /\ DecidedOnce
  BY DEF RunnerInv
<1>k. Kept /\ Gained
  BY KeptStep, GainedStep
<1>1. ASSUME NEW id \in approvals' PROVE pc'[id] = "done" /\ call'[id] # NoCall /\ call'[id].ask
  BY <1>1, <1>i, <1>k DEF DecidedOnce, TypeOK, Kept, Gained
<1>2. ASSUME NEW id \in Requests, NEW r \in Deciders(id)', NEW s \in Deciders(id)'
      PROVE  r = s
  <2>1. \A q \in Deciders(id)' :
           q \in Requests /\ ((NewCall(q) /\ id \in approvals) \/ q \in Deciders(id))
    BY <1>k DEF Deciders, Takers, Kept, Gained, NewCall
  <2>2. \A q \in Deciders(id) : id \notin approvals
    BY <1>i DEF Deciders, Takers, CallOK, CallGood
  <2> QED
    BY <1>i, <1>k, <2>1, <2>2 DEF DecidedOnce, Gained
<1>3. ASSUME NEW id \in Requests, NEW r \in Answerers(id)', NEW s \in Answerers(id)'
      PROVE  r = s
  <2>1. \A q \in Answerers(id)' :
           q \in Requests /\ ((NewCall(q) /\ id \in prompts) \/ q \in Answerers(id))
    BY <1>k DEF Answerers, Takers, Kept, Gained, NewCall
  <2>2. \A q \in Answerers(id) : id \notin prompts
    BY <1>i DEF Answerers, Takers, CallOK, CallGood
  <2> QED
    BY <1>i, <1>k, <2>1, <2>2 DEF DecidedOnce, Gained
<1> QED
  BY <1>1, <1>2, <1>3 DEF DecidedOnce

\* A job is finished by its own dispatch, or by what the associate says once it has it.
JobEnds ==
    \A j \in Requests : job'[j] \in Terminal =>
        job[j] \in Terminal \/ pc[j] = "created" \/ work[j] # "none"

LEMMA JobEndsStep == RunnerInv /\ [Next]_vars => JobEnds
<1> SUFFICES ASSUME RunnerInv, [Next]_vars PROVE JobEnds
  OBVIOUS
<1>i. TypeOK
  BY DEF RunnerInv
<1>1. ASSUME NEW r \in Requests, NEW h \in Hosts, NEW a \in Actions, Run(r, h, a) PROVE JobEnds
  BY <1>1, <1>i DEF Run, linkVars, flowVars, JobEnds, TypeOK, Terminal
<1>2. ASSUME NEW r \in Requests, Proceed(r) PROVE JobEnds
  BY <1>2, <1>i DEF Proceed, linkVars, flowVars, JobEnds, TypeOK, Terminal
<1>3. ASSUME NEW r \in Requests, Send(r) PROVE JobEnds
  BY <1>3, <1>i DEF Send, Recorded, JobEnds, TypeOK
<1>4. ASSUME NEW r \in Requests, NEW id \in Requests, Confirm(r, id) PROVE JobEnds
  BY <1>4, <1>i DEF Confirm, linkVars, flowVars, JobEnds, TypeOK, Terminal
<1>5. ASSUME NEW r \in Requests, NEW id \in Requests, Reject(r, id) PROVE JobEnds
  BY <1>5, <1>i DEF Reject, linkVars, flowVars, JobEnds, TypeOK, Terminal
<1>6. ASSUME NEW r \in Requests, NEW id \in Requests, SubmitSudo(r, id) PROVE JobEnds
  BY <1>6, <1>i DEF SubmitSudo, linkVars, flowVars, JobEnds, TypeOK, Terminal
<1>7. ASSUME NEW r \in Requests, NEW id \in Requests, CancelSudo(r, id) PROVE JobEnds
  BY <1>7, <1>i DEF CancelSudo, linkVars, flowVars, JobEnds, TypeOK, Terminal
<1>8. ASSUME NEW r \in Requests, Resume(r) PROVE JobEnds
  BY <1>8, <1>i DEF Resume, linkVars, flowVars, JobEnds, TypeOK, Terminal
<1>9. ASSUME NEW h \in Hosts, Register(h) PROVE JobEnds
  BY <1>9, <1>i DEF Register, runnerVars, flowVars, JobEnds, TypeOK, Terminal
<1>10. ASSUME NEW h \in Hosts, SetOnline(h) PROVE JobEnds
  BY <1>10, <1>i DEF SetOnline, runnerVars, flowVars, JobEnds, TypeOK, Terminal
<1>11. ASSUME NEW h \in Hosts, StreamEnds(h) PROVE JobEnds
  BY <1>11, <1>i DEF StreamEnds, runnerVars, JobEnds, TypeOK, Terminal
<1>12. ASSUME NEW h \in Hosts, RemoveHost(h) PROVE JobEnds
  BY <1>12, <1>i DEF RemoveHost, runnerVars, flowVars, JobEnds, TypeOK, Terminal
<1>13. ASSUME NEW h \in Hosts, Begin(h) PROVE JobEnds
  BY <1>13, <1>i DEF Begin, runnerVars, linkVars, JobEnds, TypeOK, Terminal
<1>14. ASSUME NEW h \in Hosts, NEW j \in Requests, Execute(h, j) PROVE JobEnds
  BY <1>14, <1>i DEF Execute, runnerVars, linkVars, JobEnds, TypeOK, Terminal
<1>15. ASSUME NEW h \in Hosts, NEW j \in Requests, Claim(h, j) PROVE JobEnds
  BY <1>15, <1>i DEF Claim, runnerVars, linkVars, JobEnds, TypeOK, Terminal
<1>16. ASSUME NEW h \in Hosts, NEW j \in Requests, Finish(h, j) PROVE JobEnds
  BY <1>16, <1>i DEF Finish, runnerVars, linkVars, JobEnds, TypeOK, Terminal
<1>17. ASSUME NEW h \in Hosts, Handle(h) PROVE JobEnds
  <2> DEFINE m == Head(answers[h])
  <2>1. m.job \in Requests /\ work[m.job] # "none"
    BY <1>17, AnswerHead DEF Handle, MessageOK, Messages
  <2>2. \A q \in Requests : q # m.job => job'[q] = job[q]
    BY <1>17, <1>i DEF Handle, Recorded, TypeOK
  <2> QED
    BY <2>1, <2>2 DEF JobEnds
<1>18. ASSUME NEW h \in Hosts, ResultHook(h) PROVE JobEnds
  BY <1>18, <1>i DEF ResultHook, linkVars, JobEnds, TypeOK, Terminal
<1>19. CASE Prune
  BY <1>19, <1>i DEF Prune, JobEnds, TypeOK, Terminal
<1>20. CASE Restart
  BY <1>20, <1>i DEF Restart, JobEnds, TypeOK, Terminal
<1>21. CASE UNCHANGED vars
  BY <1>21, <1>i DEF vars, runnerVars, linkVars, flowVars, JobEnds, TypeOK, Terminal
<1> QED
  BY <1>1, <1>2, <1>3, <1>4, <1>5, <1>6, <1>7, <1>8, <1>9, <1>10, <1>11,
     <1>12, <1>13, <1>14, <1>15, <1>16, <1>17, <1>18, <1>19, <1>20, <1>21
     DEF Next, RequestStep, HostStep

\* What is queued for a host stays as it is, but for what the host has begun.
LEMMA WireKept ==
    ASSUME RunnerInv, [Next]_vars, NEW h \in Hosts, NEW i \in 1 .. Len(wire[h]),
           work'[wire[h][i]] = "none"
    PROVE  LET j == wire[h][i] IN
           /\ pc'[j] = "done" /\ job'[j] \notin Terminal
           /\ call'[j] # NoCall /\ call'[j].host = h
<1>1. wire[h][i] \in Requests
  BY DEF RunnerInv, TypeOK
<1> QED
  BY <1>1, KeptStep, JobEndsStep DEF RunnerInv, WireOK, Kept, JobEnds

\* The other steps leave the queues alone and begin nothing.
LEMMA QuietWire ==
    ASSUME RunnerInv, [Next]_vars
    PROVE  \/ UNCHANGED wire /\ \A j \in Requests : work[j] = "none" => work'[j] = "none"
           \/ \E r \in Requests : Send(r)
           \/ \E h \in Hosts : Begin(h) \/ StreamEnds(h)
           \/ Restart
<1>1. ASSUME NEW h \in Hosts, NEW j \in Requests, Execute(h, j) \/ Claim(h, j) \/ Finish(h, j)
      PROVE  UNCHANGED wire /\ \A k \in Requests : work[k] = "none" => work'[k] = "none"
  BY <1>1 DEF RunnerInv, Execute, Claim, Finish, TypeOK
<1> QED
  BY <1>1 DEF Next, RequestStep, HostStep, Run, Proceed, Confirm, Reject, SubmitSudo, CancelSudo,
         Resume, Register, SetOnline, RemoveHost, Handle, ResultHook, Prune, flowVars, vars

LEMMA WireStep == RunnerInv /\ [Next]_vars => WireOK'
<1> SUFFICES ASSUME RunnerInv, [Next]_vars PROVE WireOK'
  OBVIOUS
<1>i. TypeOK /\ RequestOK /\ WireOK
  BY DEF RunnerInv
<1>w. \A h \in Hosts : wire[h] \in Seq(Requests) /\ \A i \in 1 .. Len(wire[h]) : wire[h][i] \in Requests
  BY <1>i DEF TypeOK
<1>1. ASSUME UNCHANGED wire, \A j \in Requests : work[j] = "none" => work'[j] = "none"
      PROVE  WireOK'
  <2>1. \A h \in Hosts : \A i \in 1 .. Len(wire[h]) : work'[wire[h][i]] = "none"
    BY <1>1, <1>i, <1>w DEF WireOK
  <2> QED
    BY <1>1, <1>i, <2>1, WireKept DEF WireOK
<1>2. ASSUME wire' = [h \in Hosts |-> <<>>] PROVE WireOK'
  BY <1>2 DEF WireOK
<1>3. ASSUME NEW r \in Requests, Send(r) PROVE WireOK'
  <2> DEFINE g == call[r].host
  <2>1. g \in Hosts /\ pc[r] = "created" /\ UNCHANGED <<call, work>> /\ pc'[r] = "done"
    BY <1>3, <1>i DEF Send, TypeOK, Calls
  <2>2. CASE UNCHANGED wire
    BY <2>1, <2>2, <1>1
  <2>3. CASE wire' = [wire EXCEPT ![g] = Append(@, r)] /\ UNCHANGED job
    <3>1. \A h \in Hosts : h # g => wire'[h] = wire[h]
      BY <2>3, <1>i DEF TypeOK
    <3>2. /\ wire'[g] = Append(wire[g], r) /\ Len(wire'[g]) = Len(wire[g]) + 1
          /\ \A i \in 1 .. Len(wire[g]) : wire'[g][i] = wire[g][i]
          /\ wire'[g][Len(wire[g]) + 1] = r
          /\ Len(wire[g]) \in Nat
      BY <2>1, <2>3, <1>i, <1>w DEF TypeOK
    <3>3. work'[r] = "none" /\ job'[r] = "queued" /\ call'[r] # NoCall /\ call'[r].host = g
      BY <2>1, <2>3, <1>i DEF RequestOK, TypeOK
    <3>4. \A h \in Hosts : \A i \in 1 .. Len(wire[h]) :
             /\ wire[h][i] # r /\ work'[wire[h][i]] = "none"
      BY <1>i, <2>1 DEF WireOK
    <3>5. \A h \in Hosts : \A i \in 1 .. Len(wire'[h]) :
             \/ i \in 1 .. Len(wire[h]) /\ wire'[h][i] = wire[h][i]
             \/ h = g /\ i = Len(wire[g]) + 1 /\ wire'[h][i] = r
      <4> TAKE h \in Hosts
      <4> TAKE i \in 1 .. Len(wire'[h])
      <4>1. CASE h # g
        BY <3>1, <4>1
      <4>2. CASE h = g
        <5>1. i \in 1 .. Len(wire[g]) \/ i = Len(wire[g]) + 1
          BY <3>2, <4>2
        <5> QED
          BY <3>2, <4>2, <5>1
      <4> QED
        BY <4>1, <4>2
    <3>6. ASSUME NEW h \in Hosts, NEW i \in 1 .. Len(wire'[h]), NEW k \in 1 .. Len(wire'[h]),
                 wire'[h][i] = wire'[h][k]
          PROVE  i = k
      BY <3>4, <3>5, <3>6, <1>i DEF WireOK
    <3>7. ASSUME NEW h \in Hosts, NEW i \in 1 .. Len(wire'[h])
          PROVE  LET j == wire'[h][i] IN
                 /\ pc'[j] = "done" /\ work'[j] = "none" /\ job'[j] \notin Terminal
                 /\ call'[j] # NoCall /\ call'[j].host = h
      BY <3>3, <3>4, <3>5, <2>1, WireKept DEF Terminal
    <3> QED
      BY <3>6, <3>7 DEF WireOK
  <2> QED
    BY <1>3, <2>2, <2>3 DEF Send
<1>4. ASSUME NEW h \in Hosts, Begin(h) PROVE WireOK'
  <2> DEFINE b == Head(wire[h])
  <2>1. /\ wire[h] # <<>> /\ b = wire[h][1] /\ b \in Requests
        /\ Len(wire[h]) \in Nat \ {0} /\ Len(Tail(wire[h])) = Len(wire[h]) - 1
        /\ \A i \in 1 .. Len(Tail(wire[h])) : Tail(wire[h])[i] = wire[h][i + 1]
    BY <1>4, <1>w, Get DEF Begin
  <2>2. wire'[h] = Tail(wire[h]) /\ \A g \in Hosts : g # h => wire'[g] = wire[g]
    BY <1>4, <1>i DEF Begin, TypeOK
  <2>3. \A j \in Requests : j # b => work'[j] = work[j]
    BY <1>4, <1>i DEF Begin, TypeOK
  <2>4. \A i \in 1 .. Len(wire'[h]) : i + 1 \in 1 .. Len(wire[h]) /\ wire'[h][i] = wire[h][i + 1]
    BY <2>1, <2>2
  <2>5. \A g \in Hosts : g # h => \A i \in 1 .. Len(wire[g]) : wire[g][i] # b
    <3>1. 1 \in 1 .. Len(wire[h])
      BY <2>1
    <3> QED
      BY <2>1, <3>1, <1>i DEF WireOK
  <2>6. \A i \in 1 .. Len(wire'[h]) : wire'[h][i] # b
    <3> TAKE i \in 1 .. Len(wire'[h])
    <3>1. 1 \in 1 .. Len(wire[h]) /\ i + 1 # 1
      BY <2>1
    <3> QED
      BY <2>1, <2>4, <3>1, <1>i DEF WireOK
  <2>7. ASSUME NEW g \in Hosts, NEW i \in 1 .. Len(wire'[g])
        PROVE  LET j == wire'[g][i] IN
               /\ pc'[j] = "done" /\ work'[j] = "none" /\ job'[j] \notin Terminal
               /\ call'[j] # NoCall /\ call'[j].host = g
    <3>1. CASE g = h
      <4>1. wire[h][i + 1] # b /\ i + 1 \in 1 .. Len(wire[h]) /\ wire'[g][i] = wire[h][i + 1]
        BY <2>4, <2>6, <3>1
      <4>2. work'[wire[h][i + 1]] = "none"
        BY <4>1, <2>3, <1>w, <1>i DEF WireOK
      <4> QED
        BY <3>1, <4>1, <4>2, WireKept
    <3>2. CASE g # h
      <4>1. wire[g][i] # b /\ i \in 1 .. Len(wire[g]) /\ wire'[g][i] = wire[g][i]
        BY <2>2, <2>5, <3>2
      <4>2. work'[wire[g][i]] = "none"
        BY <4>1, <2>3, <1>w, <1>i DEF WireOK
      <4> QED
        BY <4>1, <4>2, WireKept
    <3> QED
      BY <3>1, <3>2
  <2>8. ASSUME NEW g \in Hosts, NEW i \in 1 .. Len(wire'[g]), NEW k \in 1 .. Len(wire'[g]),
               wire'[g][i] = wire'[g][k]
        PROVE  i = k
    <3>1. CASE g = h
      <4>1. i + 1 = k + 1
        <5>1. /\ i + 1 \in 1 .. Len(wire[h]) /\ k + 1 \in 1 .. Len(wire[h])
              /\ wire[h][i + 1] = wire[h][k + 1]
          BY <2>4, <2>8, <3>1
        <5> QED
          BY <5>1, <1>i DEF WireOK
      <4> QED
        BY <4>1, <2>1, <2>2, <3>1
    <3>2. CASE g # h
      BY <2>2, <2>8, <3>2, <1>i DEF WireOK
    <3> QED
      BY <3>1, <3>2
  <2> QED
    BY <2>7, <2>8 DEF WireOK
<1>5. ASSUME NEW h \in Hosts, StreamEnds(h) PROVE WireOK'
  <2>1. wire'[h] = <<>> /\ UNCHANGED work /\ \A g \in Hosts : g # h => wire'[g] = wire[g]
    BY <1>5, <1>i DEF StreamEnds, TypeOK
  <2>2. \A g \in Hosts : \A i \in 1 .. Len(wire'[g]) :
           i \in 1 .. Len(wire[g]) /\ wire'[g] = wire[g] /\ work'[wire[g][i]] = "none"
    BY <2>1, <1>i DEF WireOK
  <2> QED
    BY <2>2, <1>i, WireKept DEF WireOK
<1>6. CASE Restart
  BY <1>6, <1>2 DEF Restart
<1>7. \/ UNCHANGED wire /\ \A j \in Requests : work[j] = "none" => work'[j] = "none"
      \/ \E r \in Requests : Send(r)
      \/ \E h \in Hosts : Begin(h) \/ StreamEnds(h)
      \/ Restart
  BY QuietWire
<1> QED
  BY <1>1, <1>3, <1>4, <1>5, <1>6, <1>7

LEMMA DispatchedStep == RunnerInv /\ [Next]_vars => DispatchedOK'
<1> SUFFICES ASSUME RunnerInv, [Next]_vars, NEW j \in Requests, Dispatched(j)'
             PROVE  call'[j] # NoCall /\ ~call'[j].ask /\ call'[j].op \notin {"reject", "cancel"}
  BY DEF DispatchedOK
<1>i. TypeOK /\ CallOK /\ DispatchedOK
  BY DEF RunnerInv
<1>w. \A h \in Hosts : wire[h] \in Seq(Requests)
  BY <1>i DEF TypeOK
<1>1. CASE Dispatched(j)
  BY <1>1, <1>i, KeptStep DEF DispatchedOK, Kept
<1>2. ASSUME Send(j) PROVE call[j] # NoCall /\ ~call[j].ask /\ call[j].op \notin {"reject", "cancel"}
  BY <1>2, <1>i DEF Send, CallOK, CallGood, TypeOK
<1>3. CASE UNCHANGED wire /\ (work[j] = "none" => work'[j] = "none")
  BY <1>1, <1>3 DEF Dispatched
<1>4. ASSUME NEW r \in Requests, Send(r) PROVE Dispatched(j) \/ Send(j)
  <2> DEFINE g == call[r].host
  <2>1. UNCHANGED work /\ g \in Hosts
    BY <1>4, <1>i DEF Send, TypeOK, Calls
  <2>2. wire' = wire \/ wire' = [wire EXCEPT ![g] = Append(@, r)]
    BY <1>4 DEF Send
  <2>3. CASE wire' = [wire EXCEPT ![g] = Append(@, r)]
    <3>1. SUFFICES ASSUME NEW h \in Hosts, NEW i \in 1 .. Len(wire'[h]), wire'[h][i] = j
                   PROVE  Dispatched(j) \/ j = r
      BY <1>4, <2>1 DEF Dispatched
    <3>2. CASE h = g
      BY <1>w, <2>1, <2>3, <3>1, <3>2, <1>i DEF TypeOK, Dispatched
    <3>3. CASE h # g
      BY <2>3, <3>1, <3>3, <1>i DEF TypeOK, Dispatched
    <3> QED
      BY <3>2, <3>3
  <2> QED
    BY <2>1, <2>2, <2>3 DEF Dispatched
<1>5. ASSUME NEW h \in Hosts, Begin(h) PROVE Dispatched(j)
  <2> DEFINE b == Head(wire[h])
  <2>1. Dispatched(b) /\ wire[h] # <<>> /\ \A q \in Requests : q # b => work'[q] = work[q]
    BY <1>5, <1>i, WireHead DEF Begin, TypeOK
  <2>2. \A i \in 1 .. Len(wire'[h]) : i + 1 \in 1 .. Len(wire[h]) /\ wire'[h][i] = wire[h][i + 1]
    BY <1>5, <1>w, <1>i, <2>1, Get DEF Begin, TypeOK
  <2>3. \A f \in Hosts : f # h => wire'[f] = wire[f]
    BY <1>5, <1>i DEF Begin, TypeOK
  <2>4. CASE work'[j] # "none"
    BY <2>1, <2>4 DEF Dispatched
  <2>5. ASSUME NEW f \in Hosts, NEW i \in 1 .. Len(wire'[f]), wire'[f][i] = j
        PROVE  Dispatched(j)
    BY <2>2, <2>3, <2>5 DEF Dispatched
  <2> QED
    BY <2>4, <2>5 DEF Dispatched
<1>6. ASSUME NEW h \in Hosts, StreamEnds(h) PROVE Dispatched(j)
  <2>1. wire'[h] = <<>> /\ UNCHANGED work /\ \A f \in Hosts : f # h => wire'[f] = wire[f]
    BY <1>6, <1>i DEF StreamEnds, TypeOK
  <2> QED
    BY <2>1 DEF Dispatched
<1>7. CASE Restart
  <2>1. UNCHANGED work /\ \A h \in Hosts : wire'[h] = <<>>
    BY <1>7 DEF Restart
  <2>2. \A h \in Hosts : \A i \in 1 .. Len(wire'[h]) : FALSE
    BY <2>1
  <2>3. work'[j] # "none"
    BY <2>2 DEF Dispatched
  <2> QED
    BY <1>1, <2>1, <2>3 DEF Dispatched
<1>8. \/ UNCHANGED wire /\ (work[j] = "none" => work'[j] = "none")
      \/ \E r \in Requests : Send(r)
      \/ \E h \in Hosts : Begin(h) \/ StreamEnds(h)
      \/ Restart
  BY QuietWire
<1>9. CASE Send(j)
  <2>1. UNCHANGED call
    BY <1>9 DEF Send
  <2> QED
    BY <1>2, <1>9, <2>1
<1> QED
  BY <1>1, <1>3, <1>4, <1>5, <1>6, <1>7, <1>8, <1>9 DEF Dispatched

-----------------------------------------------------------------------------
\* A step leaves the messages of a host alone, takes the oldest or drops them all ...
Shrunk ==
    \A h \in Hosts : \E d \in {0, 1} : \A i \in 1 .. Len(answers'[h]) :
        i + d \in 1 .. Len(answers[h]) /\ answers'[h][i] = answers[h][i + d]

\* MessageOK(h, m) after the step, for a message of the step itself.
Told(h, m) ==
    /\ call'[m.job] # NoCall /\ call'[m.job].host = h /\ work'[m.job] # "none"
    /\ m.kind # "ack" /\ m.state \in Terminal => work'[m.job] \in Terminal \cup {"claimed"}
    /\ m.state = "needs_sudo" => m.kind = "result" /\ work'[m.job] = "paused"
    /\ m.kind = "result" => work'[m.job] \in Over

\* ... or the host adds one, about a job it has not answered yet.
Speaks(h, m) ==
    /\ Says(h, m) /\ m \in Messages /\ Told(h, m)
    /\ \A i \in 1 .. Len(answers[h]) : Follows(answers[h][i], m)
    /\ work[m.job] \notin Over
    /\ m.kind # "ack" /\ job[m.job] \in Terminal => m.state \in Terminal
    /\ UNCHANGED <<prompts, hook, job, call>>

LEMMA Speech ==
    ASSUME RunnerInv, [Next]_vars, NEW h \in Hosts,
           Begin(h) \/ \E j \in Requests : Execute(h, j) \/ Claim(h, j) \/ Finish(h, j)
    PROVE  \E m \in Messages : Speaks(h, m)
<1>i. TypeOK /\ MessagesOK /\ JobOK
  BY DEF RunnerInv
<1>a. \A i \in 1 .. Len(answers[h]) : answers[h][i] \in Messages /\ MessageOK(h, answers[h][i])
  BY <1>i DEF TypeOK, MessagesOK
\* What of the new message is left to show in each case.
<1>b. ASSUME NEW m \in Messages, Says(h, m), Told(h, m), work[m.job] \notin Over,
             work[m.job] = "claimed" => m.kind # "ack" /\ m.state \in Terminal,
             m.kind # "ack" /\ job[m.job] \in Terminal => m.state \in Terminal,
             UNCHANGED <<prompts, hook, job, call>>
      PROVE  Speaks(h, m)
  <2>1. \A i \in 1 .. Len(answers[h]) : Follows(answers[h][i], m)
    BY <1>a, <1>b DEF Follows, MessageOK, Over
  <2> QED
    BY <1>b, <2>1 DEF Speaks
<1>1. CASE Begin(h)
  <2> DEFINE j == Head(wire[h])
  <2>1. j \in Requests /\ work[j] = "none" /\ call[j] # NoCall /\ call[j].host = h
    BY <1>1, WireHead DEF Begin
  <2>2. /\ Ack(j) \in Messages /\ Ack(j).job = j /\ Ack(j).kind = "ack" /\ Ack(j).state = "queued"
        /\ Says(h, Ack(j)) /\ UNCHANGED <<prompts, hook, job, call>>
    BY <1>1, <2>1, Messaged DEF Begin, runnerVars, Ack
  <2>3. work'[j] = "begun"
    BY <1>1, <2>1, <1>i DEF Begin, TypeOK
  <2> HIDE DEF j
  <2>4. Told(h, Ack(j))
    BY <2>1, <2>2, <2>3 DEF Told
  <2>5. /\ work[Ack(j).job] \notin Over /\ work[Ack(j).job] # "claimed"
        /\ Ack(j).kind = "ack"
    BY <2>1, <2>2 DEF Over, Terminal
  <2> QED
    BY <1>b, <2>2, <2>4, <2>5
<1>2. ASSUME NEW j \in Requests, Execute(h, j) PROVE \E m \in Messages : Speaks(h, m)
  <2>1. /\ work[j] = "begun" /\ call[j] # NoCall /\ call[j].host = h
        /\ UNCHANGED <<prompts, hook, job, call>> /\ job[j] \notin Terminal
    BY <1>2, <1>i DEF Execute, Jobs, runnerVars, JobOK
  <2>2. CASE work'[j] = "paused" /\ Says(h, Result(j, "needs_sudo"))
    <3>1. /\ Result(j, "needs_sudo") \in Messages /\ Result(j, "needs_sudo").job = j
          /\ Result(j, "needs_sudo").kind = "result"
          /\ Result(j, "needs_sudo").state = "needs_sudo"
      BY Messaged DEF Result
    <3>2. Told(h, Result(j, "needs_sudo"))
      BY <2>1, <2>2, <3>1 DEF Told, Over, Terminal
    <3> QED
      BY <1>b, <2>1, <2>2, <3>1, <3>2 DEF Over, Terminal
  <2>3. CASE work'[j] = "running" /\ Says(h, Event(j, "running"))
    <3>1. /\ Event(j, "running") \in Messages /\ Event(j, "running").job = j
          /\ Event(j, "running").kind = "event" /\ Event(j, "running").state = "running"
      BY Messaged DEF Event
    <3>2. Told(h, Event(j, "running"))
      BY <2>1, <2>3, <3>1 DEF Told, Over, Terminal
    <3> QED
      BY <1>b, <2>1, <2>3, <3>1, <3>2 DEF Over, Terminal
  <2> QED
    BY <1>2, <2>2, <2>3, <1>i DEF Execute, TypeOK
<1>3. ASSUME NEW j \in Requests, Claim(h, j) PROVE \E m \in Messages : Speaks(h, m)
  <2>1. /\ work[j] = "running" /\ call[j] # NoCall /\ call[j].host = h
        /\ UNCHANGED <<prompts, hook, job, call>> /\ work'[j] = "claimed"
        /\ Says(h, Event(j, "succeeded"))
    BY <1>3, <1>i DEF Claim, Jobs, runnerVars, TypeOK
  <2>2. /\ Event(j, "succeeded") \in Messages /\ Event(j, "succeeded").job = j
        /\ Event(j, "succeeded").kind = "event" /\ Event(j, "succeeded").state = "succeeded"
    BY Messaged DEF Event, Terminal
  <2>3. Told(h, Event(j, "succeeded"))
    BY <2>1, <2>2 DEF Told, Over, Terminal
  <2>4. /\ work[Event(j, "succeeded").job] \notin Over
        /\ Event(j, "succeeded").state \in Terminal /\ Event(j, "succeeded").kind # "ack"
    BY <2>1, <2>2 DEF Over, Terminal
  <2> QED
    BY <1>b, <2>1, <2>2, <2>3, <2>4
<1>4. ASSUME NEW j \in Requests, Finish(h, j) PROVE \E m \in Messages : Speaks(h, m)
  <2>1. PICK st \in Terminal : work' = [work EXCEPT ![j] = st] /\ Says(h, Result(j, st))
    BY <1>4 DEF Finish
  <2>2. /\ work[j] \in {"claimed", "running", "begun"} /\ call[j] # NoCall /\ call[j].host = h
        /\ UNCHANGED <<prompts, hook, job, call>> /\ work'[j] = st
    BY <1>4, <2>1, <1>i DEF Finish, Jobs, runnerVars, TypeOK
  <2>3. /\ Result(j, st) \in Messages /\ Result(j, st).job = j
        /\ Result(j, st).kind = "result" /\ Result(j, st).state = st
    BY Messaged DEF Result
  <2>4. Told(h, Result(j, st))
    BY <2>2, <2>3 DEF Told, Over, Terminal
  <2>5. /\ work[Result(j, st).job] \notin Over
        /\ Result(j, st).state \in Terminal /\ Result(j, st).kind # "ack"
    BY <2>2, <2>3 DEF Over, Terminal
  <2> QED
    BY <1>b, <2>1, <2>2, <2>3, <2>4, <2>5
<1> QED
  BY <1>1, <1>2, <1>3, <1>4

LEMMA HandleShrinks ==
    ASSUME RunnerInv, NEW h \in Hosts, Handle(h)
    PROVE  Shrunk
<1>1. /\ answers'[h] = Tail(answers[h])
      /\ \A g \in Hosts : g # h => answers'[g] = answers[g]
  BY DEF RunnerInv, TypeOK, Handle
<1>2. \A i \in 1 .. Len(answers'[h]) :
         i + 1 \in 1 .. Len(answers[h]) /\ answers'[h][i] = answers[h][i + 1]
  BY <1>1, AnswerHead DEF Handle
<1>3. \A g \in Hosts : answers[g] \in Seq(Messages)
  BY DEF RunnerInv, TypeOK
<1>4. \A g \in Hosts : g # h => \A i \in 1 .. Len(answers'[g]) :
         i + 0 \in 1 .. Len(answers[g]) /\ answers'[g][i] = answers[g][i + 0]
  BY <1>1, <1>3
<1> QED
  BY <1>2, <1>4 DEF Shrunk

LEMMA ShrunkOrSpoken ==
    ASSUME RunnerInv, [Next]_vars
    PROVE  Shrunk \/ \E h \in Hosts, m \in Messages : Speaks(h, m)
<1>a. \A h \in Hosts : answers[h] \in Seq(Messages)
  BY DEF RunnerInv, TypeOK
<1>1. CASE UNCHANGED answers
  <2>1. \A h \in Hosts : \A i \in 1 .. Len(answers'[h]) :
           i + 0 \in 1 .. Len(answers[h]) /\ answers'[h][i] = answers[h][i + 0]
    BY <1>1, <1>a
  <2> QED
    BY <2>1 DEF Shrunk
<1>2. ASSUME NEW h \in Hosts, StreamEnds(h) PROVE Shrunk
  <2>1. /\ answers'[h] = <<>>
        /\ \A g \in Hosts : g # h => answers'[g] = answers[g]
    BY <1>2 DEF StreamEnds, RunnerInv, TypeOK
  <2>2. \A g \in Hosts : \A i \in 1 .. Len(answers'[g]) :
           i + 0 \in 1 .. Len(answers[g]) /\ answers'[g][i] = answers[g][i + 0]
    BY <2>1, <1>a
  <2> QED
    BY <2>2 DEF Shrunk
<1>3. CASE Restart
  <2>1. \A h \in Hosts : answers'[h] = <<>>
    BY <1>3 DEF Restart
  <2>2. \A h \in Hosts : \A i \in 1 .. Len(answers'[h]) : FALSE
    BY <2>1
  <2> QED
    BY <2>2 DEF Shrunk
<1>4. \/ UNCHANGED answers
      \/ \E h \in Hosts : StreamEnds(h) \/ Handle(h) \/ Begin(h)
                         \/ \E j \in Requests : Execute(h, j) \/ Claim(h, j) \/ Finish(h, j)
      \/ Restart
  BY DEF Next, RequestStep, HostStep, Run, Proceed, Send, Confirm, Reject, SubmitSudo,
         CancelSudo, Resume, Register, SetOnline, RemoveHost, ResultHook, Prune, flowVars, vars
<1> QED
  BY <1>1, <1>2, <1>3, <1>4, HandleShrinks, Speech

\* After a put: the messages there were and the new one.
LEMMA Spoken ==
    ASSUME RunnerInv, NEW h \in Hosts, NEW m, Speaks(h, m)
    PROVE  /\ Len(answers[h]) \in Nat /\ Len(answers'[h]) = Len(answers[h]) + 1
           /\ answers'[h][Len(answers[h]) + 1] = m
           /\ \A i \in 1 .. Len(answers[h]) : answers'[h][i] = answers[h][i]
           /\ \A g \in Hosts : g # h => answers'[g] = answers[g]
           /\ \A g \in Hosts : \A i \in 1 .. Len(answers'[g]) :
                 \/ i \in 1 .. Len(answers[g]) /\ answers'[g][i] = answers[g][i]
                 \/ g = h /\ i = Len(answers[h]) + 1 /\ answers'[g][i] = m
<1>1. answers \in [Hosts -> Seq(Messages)] /\ m \in Messages
      /\ answers' = [answers EXCEPT ![h] = Append(@, m)]
  BY DEF RunnerInv, TypeOK, Speaks, Says
<1>2. /\ Len(answers[h]) \in Nat /\ Len(answers'[h]) = Len(answers[h]) + 1
      /\ answers'[h][Len(answers[h]) + 1] = m
      /\ \A i \in 1 .. Len(answers[h]) : answers'[h][i] = answers[h][i]
      /\ \A g \in Hosts : g # h => answers'[g] = answers[g]
  BY <1>1
<1>3. ASSUME NEW g \in Hosts, NEW i \in 1 .. Len(answers'[g])
      PROVE  \/ i \in 1 .. Len(answers[g]) /\ answers'[g][i] = answers[g][i]
             \/ g = h /\ i = Len(answers[h]) + 1 /\ answers'[g][i] = m
  <2>1. CASE g # h
    BY <1>2, <2>1
  <2>2. CASE g = h
    <3>1. i \in 1 .. Len(answers[h]) \/ i = Len(answers[h]) + 1
      BY <1>2, <2>2
    <3> QED
      BY <1>2, <2>2, <3>1
  <2> QED
    BY <2>1, <2>2
<1> QED
  BY <1>2, <1>3

LEMMA MessagesStep == RunnerInv /\ [Next]_vars => MessagesOK'
<1> SUFFICES ASSUME RunnerInv, [Next]_vars PROVE MessagesOK'
  OBVIOUS
<1>i. TypeOK /\ MessagesOK
  BY DEF RunnerInv
<1>a. \A h \in Hosts : answers[h] \in Seq(Messages)
         /\ \A i \in 1 .. Len(answers[h]) : answers[h][i] \in Messages
  BY <1>i DEF TypeOK
<1>k. ASSUME NEW h \in Hosts, NEW m \in Messages, MessageOK(h, m)
      PROVE  Told(h, m)
  <2>1. m.job \in Requests
    BY DEF Messages
  <2> QED
    BY <1>k, <2>1, KeptStep DEF MessageOK, Told, Kept, Over
<1>1. CASE Shrunk
  <2> SUFFICES ASSUME NEW h \in Hosts
               PROVE  \A i \in 1 .. Len(answers'[h]) :
                         /\ Told(h, answers'[h][i])
                         /\ \A k \in i + 1 .. Len(answers'[h]) :
                               Follows(answers'[h][i], answers'[h][k])
    BY DEF MessagesOK, MessageOK, Told, Follows
  <2>1. PICK d \in {0, 1} : \A i \in 1 .. Len(answers'[h]) :
           i + d \in 1 .. Len(answers[h]) /\ answers'[h][i] = answers[h][i + d]
    BY <1>1 DEF Shrunk
  <2>2. ASSUME NEW i \in 1 .. Len(answers'[h]) PROVE Told(h, answers'[h][i])
    BY <2>1, <1>i, <1>a, <1>k DEF MessagesOK
  <2>3. ASSUME NEW i \in 1 .. Len(answers'[h]), NEW k \in i + 1 .. Len(answers'[h])
        PROVE  Follows(answers'[h][i], answers'[h][k])
    <3>1. k \in 1 .. Len(answers'[h])
      OBVIOUS
    <3>2. /\ i + d \in 1 .. Len(answers[h]) /\ k + d \in i + d + 1 .. Len(answers[h])
          /\ answers'[h][i] = answers[h][i + d] /\ answers'[h][k] = answers[h][k + d]
      <4>1. d \in 0 .. 1 /\ i \in Nat /\ k \in Nat /\ k > i /\ Len(answers[h]) \in Nat
        BY <1>a
      <4> QED
        BY <2>1, <3>1, <4>1
    <3> QED
      BY <3>2, <1>i DEF MessagesOK
  <2> QED
    BY <2>2, <2>3
<1>2. ASSUME NEW h \in Hosts, NEW m \in Messages, Speaks(h, m) PROVE MessagesOK'
  <2>1. ASSUME NEW g \in Hosts, NEW i \in 1 .. Len(answers'[g])
        PROVE  Told(g, answers'[g][i])
    <3>1. CASE i \in 1 .. Len(answers[g]) /\ answers'[g][i] = answers[g][i]
      BY <3>1, <1>i, <1>a, <1>k DEF MessagesOK
    <3>2. CASE g = h /\ answers'[g][i] = m
      BY <1>2, <3>2 DEF Speaks
    <3> QED
      BY <1>2, <3>1, <3>2, Spoken
  <2>2. ASSUME NEW g \in Hosts, NEW i \in 1 .. Len(answers'[g]),
               NEW k \in i + 1 .. Len(answers'[g])
        PROVE  Follows(answers'[g][i], answers'[g][k])
    <3>1. k \in 1 .. Len(answers'[g]) /\ k > i
      OBVIOUS
    <3>2. CASE k \in 1 .. Len(answers[g]) /\ answers'[g][k] = answers[g][k]
      <4>1. i \in 1 .. Len(answers[g]) /\ k \in i + 1 .. Len(answers[g])
        BY <3>1, <3>2
      <4>2. answers'[g][i] = answers[g][i]
        BY <1>2, <4>1, Spoken
      <4> QED
        BY <3>2, <4>1, <4>2, <1>i DEF MessagesOK
    <3>3. CASE g = h /\ k = Len(answers[h]) + 1 /\ answers'[g][k] = m
      <4>1. i \in 1 .. Len(answers[h]) /\ answers'[h][i] = answers[h][i]
        BY <1>2, <3>1, <3>3, Spoken
      <4> QED
        BY <1>2, <3>3, <4>1 DEF Speaks
    <3> QED
      BY <1>2, <3>1, <3>2, <3>3, Spoken
  <2> QED
    BY <2>1, <2>2 DEF MessagesOK, MessageOK, Told, Follows
<1> QED
  BY <1>1, <1>2, ShrunkOrSpoken

-----------------------------------------------------------------------------
\* The host has nothing more to say of a job whose work is over ...
LEMMA StaysQuiet ==
    ASSUME RunnerInv, [Next]_vars, NEW j \in Requests, Quiet(j), work[j] \in Over
    PROVE  Quiet(j)'
<1>1. CASE Shrunk
  BY <1>1 DEF Shrunk, Quiet
<1>2. ASSUME NEW h \in Hosts, NEW m \in Messages, Speaks(h, m) PROVE Quiet(j)'
  <2>1. m.job # j
    BY <1>2 DEF Speaks
  <2> QED
    BY <1>2, <2>1, Spoken DEF Quiet
<1> QED
  BY <1>1, <1>2, ShrunkOrSpoken

\* ... nor once its result has been handled, and no claim is left when a job has
\* been shown as finished.
Settled(j) ==
    \A h \in Hosts : \A i \in 1 .. Len(answers[h]) :
        answers[h][i].job = j /\ answers[h][i].kind # "ack" => answers[h][i].state \in Terminal

LEMMA Remaining ==
    ASSUME RunnerInv, NEW h \in Hosts, Handle(h), NEW m, m = Head(answers[h]),
           NEW j, j = m.job
    PROVE  /\ m.kind = "result" => Quiet(j)'
           /\ m.kind # "ack" /\ m.state \in Terminal => Settled(j)'
<1>1. /\ answers'[h] = Tail(answers[h])
      /\ \A g \in Hosts : g # h => answers'[g] = answers[g]
  BY DEF RunnerInv, TypeOK, Handle
<1>2. MessageOK(h, m) /\ \A k \in 1 .. Len(answers'[h]) : Follows(m, answers'[h][k])
  BY <1>1, AnswerHead DEF Handle
<1>3. \A g \in Hosts : g # h => \A i \in 1 .. Len(answers'[g]) : answers'[g][i].job # j
  BY <1>1, <1>2 DEF RunnerInv, MessagesOK, MessageOK
<1>4. \A k \in 1 .. Len(answers'[h]) : answers'[h][k].job = j =>
         /\ m.kind # "result"
         /\ m.kind # "ack" /\ m.state \in Terminal /\ answers'[h][k].kind # "ack"
               => answers'[h][k].state \in Terminal
  BY <1>2 DEF Follows
<1>5. m.kind = "result" => Quiet(j)'
  <2> SUFFICES ASSUME m.kind = "result", NEW g \in Hosts, NEW i \in 1 .. Len(answers'[g])
               PROVE  answers'[g][i].job # j
    BY DEF Quiet
  <2> QED
    BY <1>3, <1>4
<1>6. m.kind # "ack" /\ m.state \in Terminal => Settled(j)'
  BY <1>3, <1>4 DEF Settled
<1> QED
  BY <1>5, <1>6

LEMMA StaysSettled ==
    ASSUME RunnerInv, [Next]_vars, NEW j \in Requests, job[j] \in Terminal
    PROVE  Settled(j)'
<1>1. Settled(j)
  BY DEF RunnerInv, JobOK, Settled
<1>2. CASE Shrunk
  BY <1>1, <1>2 DEF Shrunk, Settled
<1>3. ASSUME NEW h \in Hosts, NEW m \in Messages, Speaks(h, m) PROVE Settled(j)'
  <2>1. m.job = j /\ m.kind # "ack" => m.state \in Terminal
    BY <1>3 DEF Speaks
  <2> QED
    BY <1>1, <1>3, <2>1, Spoken DEF Settled
<1> QED
  BY <1>2, <1>3, ShrunkOrSpoken

\* A job comes to an end or to a pause by a failed dispatch or by what its host says.
Failed(j) == pc[j] = "created" /\ UNCHANGED <<work, answers>>

Heard(j) ==
    \E h \in Hosts :
        LET m == Head(answers[h]) IN
        /\ Handle(h) /\ m.job = j /\ m.kind # "ack" /\ job'[j] = m.state
        /\ m.kind = "result" => hook'[h] = j

JobMoves ==
    \A j \in Requests : job'[j] \in Terminal \cup {"needs_sudo"} =>
        job'[j] = job[j] \/ (job'[j] = "failed" /\ Failed(j)) \/ Heard(j)

LEMMA JobMovesStep == RunnerInv /\ [Next]_vars => JobMoves
<1> SUFFICES ASSUME RunnerInv, [Next]_vars PROVE JobMoves
  OBVIOUS
<1>i. TypeOK
  BY DEF RunnerInv
<1>1. ASSUME NEW r \in Requests, NEW h \in Hosts, NEW a \in Actions, Run(r, h, a) PROVE JobMoves
  BY <1>1, <1>i DEF Run, linkVars, flowVars, JobMoves, TypeOK, Terminal
<1>2. ASSUME NEW r \in Requests, Proceed(r) PROVE JobMoves
  BY <1>2, <1>i DEF Proceed, linkVars, flowVars, JobMoves, TypeOK, Terminal
<1>3. ASSUME NEW r \in Requests, Send(r) PROVE JobMoves
  <2>1. \A q \in Requests : q # r => job'[q] = job[q]
    BY <1>3, <1>i DEF Send, Recorded, TypeOK
  <2>2. job'[r] = job[r] \/ (job'[r] = "failed" /\ Failed(r))
    BY <1>3, <1>i DEF Send, Recorded, Failed, TypeOK
  <2> QED
    BY <2>1, <2>2 DEF JobMoves
<1>4. ASSUME NEW r \in Requests, NEW id \in Requests, Confirm(r, id) PROVE JobMoves
  BY <1>4, <1>i DEF Confirm, linkVars, flowVars, JobMoves, TypeOK, Terminal
<1>5. ASSUME NEW r \in Requests, NEW id \in Requests, Reject(r, id) PROVE JobMoves
  BY <1>5, <1>i DEF Reject, linkVars, flowVars, JobMoves, TypeOK, Terminal
<1>6. ASSUME NEW r \in Requests, NEW id \in Requests, SubmitSudo(r, id) PROVE JobMoves
  BY <1>6, <1>i DEF SubmitSudo, linkVars, flowVars, JobMoves, TypeOK, Terminal
<1>7. ASSUME NEW r \in Requests, NEW id \in Requests, CancelSudo(r, id) PROVE JobMoves
  BY <1>7, <1>i DEF CancelSudo, linkVars, flowVars, JobMoves, TypeOK, Terminal
<1>8. ASSUME NEW r \in Requests, Resume(r) PROVE JobMoves
  BY <1>8, <1>i DEF Resume, linkVars, flowVars, JobMoves, TypeOK, Terminal
<1>9. ASSUME NEW h \in Hosts, Register(h) PROVE JobMoves
  BY <1>9, <1>i DEF Register, runnerVars, flowVars, JobMoves, TypeOK, Terminal
<1>10. ASSUME NEW h \in Hosts, SetOnline(h) PROVE JobMoves
  BY <1>10, <1>i DEF SetOnline, runnerVars, flowVars, JobMoves, TypeOK, Terminal
<1>11. ASSUME NEW h \in Hosts, StreamEnds(h) PROVE JobMoves
  BY <1>11, <1>i DEF StreamEnds, runnerVars, JobMoves, TypeOK, Terminal
<1>12. ASSUME NEW h \in Hosts, RemoveHost(h) PROVE JobMoves
  BY <1>12, <1>i DEF RemoveHost, runnerVars, flowVars, JobMoves, TypeOK, Terminal
<1>13. ASSUME NEW h \in Hosts, Begin(h) PROVE JobMoves
  BY <1>13, <1>i DEF Begin, runnerVars, linkVars, JobMoves, TypeOK, Terminal
<1>14. ASSUME NEW h \in Hosts, NEW j \in Requests, Execute(h, j) PROVE JobMoves
  BY <1>14, <1>i DEF Execute, runnerVars, linkVars, JobMoves, TypeOK, Terminal
<1>15. ASSUME NEW h \in Hosts, NEW j \in Requests, Claim(h, j) PROVE JobMoves
  BY <1>15, <1>i DEF Claim, runnerVars, linkVars, JobMoves, TypeOK, Terminal
<1>16. ASSUME NEW h \in Hosts, NEW j \in Requests, Finish(h, j) PROVE JobMoves
  BY <1>16, <1>i DEF Finish, runnerVars, linkVars, JobMoves, TypeOK, Terminal
<1>17. ASSUME NEW h \in Hosts, Handle(h) PROVE JobMoves
  <2> DEFINE m == Head(answers[h])
  <2>1. m.job \in Requests
    BY <1>17, AnswerHead DEF Handle, Messages
  <2>2. \A q \in Requests : q # m.job => job'[q] = job[q]
    BY <1>17, <1>i DEF Handle, Recorded, TypeOK
  <2>3. job'[m.job] = job[m.job] \/ Heard(m.job)
    <3> SUFFICES ASSUME job' # job PROVE Heard(m.job)
      OBVIOUS
    <3>1. m.kind # "ack" /\ job' = [job EXCEPT ![m.job] = m.state] /\ InRegistry(m.job)
      BY <1>17 DEF Handle, Recorded
    <3>2. job'[m.job] = m.state /\ (m.kind = "result" => hook'[h] = m.job)
      BY <1>17, <1>i, <2>1, <3>1 DEF Handle, TypeOK
    <3> QED
      BY <1>17, <3>1, <3>2 DEF Heard
  <2> QED
    BY <2>2, <2>3 DEF JobMoves
<1>18. ASSUME NEW h \in Hosts, ResultHook(h) PROVE JobMoves
  BY <1>18, <1>i DEF ResultHook, linkVars, JobMoves, TypeOK, Terminal
<1>19. CASE Prune
  BY <1>19, <1>i DEF Prune, JobMoves, TypeOK, Terminal
<1>20. CASE Restart
  BY <1>20, <1>i DEF Restart, JobMoves, TypeOK, Terminal
<1>21. CASE UNCHANGED vars
  BY <1>21, <1>i DEF vars, runnerVars, linkVars, flowVars, JobMoves, TypeOK, Terminal
<1> QED
  BY <1>1, <1>2, <1>3, <1>4, <1>5, <1>6, <1>7, <1>8, <1>9, <1>10, <1>11,
     <1>12, <1>13, <1>14, <1>15, <1>16, <1>17, <1>18, <1>19, <1>20, <1>21
     DEF Next, RequestStep, HostStep

\* No step begins or runs the work of a finished job.
LEMMA FinishedStays ==
    ASSUME RunnerInv, [Next]_vars, NEW j \in Requests, job[j] \in Terminal
    PROVE  work'[j] \notin {"begun", "running"}
<1>i. TypeOK /\ work[j] \notin {"begun", "running"}
  BY DEF RunnerInv, JobOK
<1>1. ASSUME NEW h \in Hosts, Begin(h) PROVE work'[j] = work[j]
  <2>1. Head(wire[h]) # j
    BY <1>1, WireHead DEF Begin
  <2> QED
    BY <1>1, <1>i, <2>1 DEF Begin, TypeOK
<1>2. ASSUME NEW h \in Hosts, NEW k \in Requests, Execute(h, k) PROVE work'[j] = work[j]
  BY <1>2, <1>i DEF Execute, TypeOK
<1>3. ASSUME NEW h \in Hosts, NEW k \in Requests, Claim(h, k) \/ Finish(h, k)
      PROVE  work'[j] \notin {"begun", "running"}
  BY <1>3, <1>i DEF Claim, Finish, TypeOK, Terminal
<1>4. \/ UNCHANGED work
      \/ \E h \in Hosts : \/ Begin(h)
                         \/ \E k \in Requests : Execute(h, k) \/ Claim(h, k) \/ Finish(h, k)
  BY DEF Next, RequestStep, HostStep, Run, Proceed, Send, Confirm, Reject, SubmitSudo,
         CancelSudo, Resume, Register, SetOnline, StreamEnds, RemoveHost, Handle, ResultHook,
         Prune, Restart, flowVars, vars
<1> QED
  BY <1>1, <1>2, <1>3, <1>4, <1>i

\* A paused job is not forgotten while the manager runs: a prompt is taken by an
\* operator, a hook raises one.
LEMMA PausedStays ==
    ASSUME RunnerInv, [Next]_vars, NEW j \in Requests, job[j] = "needs_sudo"
    PROVE  \/ Restart
           \/ /\ job'[j] = "needs_sudo"
              /\ \/ j \in prompts'
                 \/ \E h \in Hosts : hook'[h] = j
                 \/ Answerers(j)' # {}
<1>i. TypeOK /\ RequestOK
  BY DEF RunnerInv
<1>p. /\ Quiet(j) /\ pc[j] = "done"
      /\ j \in prompts \/ (\E h \in Hosts : hook[h] = j) \/ Answerers(j) # {}
  BY DEF RunnerInv, JobOK, RequestOK, TypeOK
<1>1. ASSUME ~Restart PROVE job'[j] = "needs_sudo"
  <2>1. ASSUME NEW r \in Requests, Proceed(r) \/ Send(r) PROVE job'[j] = job[j]
    BY <2>1, <1>p, <1>i DEF Proceed, Send, Recorded, TypeOK
  <2>2. ASSUME NEW h \in Hosts, Handle(h) PROVE job'[j] = job[j]
    <3>1. Head(answers[h]).job # j
      BY <2>2, <1>p, AnswerHead DEF Handle
    <3> QED
      BY <2>2, <3>1, <1>i DEF Handle, Recorded, TypeOK
  <2>3. CASE Prune
    BY <2>3, <1>i DEF Prune, Prunable, Terminal
  <2>4. \/ UNCHANGED job
        \/ \E r \in Requests : Proceed(r) \/ Send(r)
        \/ \E h \in Hosts : Handle(h)
        \/ Prune
    BY <1>1 DEF Next, RequestStep, HostStep, Run, Confirm, Reject, SubmitSudo, CancelSudo,
           Resume, Register, SetOnline, StreamEnds, RemoveHost, Begin, Execute, Claim, Finish,
           ResultHook, vars
  <2> QED
    BY <2>1, <2>2, <2>3, <2>4
<1>2. CASE Answerers(j) # {}
  <2>1. Answerers(j) \subseteq Answerers(j)'
    BY KeptStep DEF Answerers, Takers, Kept
  <2> QED
    BY <1>1, <1>2, <2>1
<1>3. CASE j \in prompts
  <2>1. ASSUME NEW r \in Requests, NEW id \in Requests, SubmitSudo(r, id) \/ CancelSudo(r, id)
        PROVE  j \in prompts' \/ Answerers(j)' # {}
    <3>1. PICK op \in {"submit", "cancel"} :
             prompts' = prompts \ {id} /\ call' = [call EXCEPT ![r] = Again(r, op, id)]
      BY <2>1 DEF SubmitSudo, CancelSudo
    <3>2. Again(r, op, id) # NoCall /\ Again(r, op, id).op = op /\ Again(r, op, id).of = id
      <4>1. id \in prompts
        BY <2>1 DEF SubmitSudo, CancelSudo
      <4> QED
        BY <4>1, Called, AgainType DEF Again
    <3>3. r \in Answerers(id)'
      BY <1>i, <3>1, <3>2 DEF Answerers, Takers, TypeOK
    <3> QED
      BY <1>3, <3>1, <3>3
  <2>2. \/ prompts \subseteq prompts'
        \/ \E r, id \in Requests : SubmitSudo(r, id) \/ CancelSudo(r, id)
        \/ Restart
    BY DEF Next, RequestStep, HostStep, Run, Proceed, Send, Confirm, Reject, Resume, Register,
           SetOnline, StreamEnds, RemoveHost, Begin, Execute, Claim, Finish, Handle, ResultHook,
           Prune, runnerVars, vars
  <2> QED
    BY <1>1, <1>3, <2>1, <2>2
<1>4. ASSUME NEW h \in Hosts, hook[h] = j PROVE Restart \/ hook'[h] = j \/ j \in prompts'
  <2>1. hook[h] # NoJob
    BY <1>4, RunnerAssumption DEF RunnerAssumption
  <2>2. ASSUME NEW g \in Hosts, ResultHook(g) PROVE hook'[h] = j \/ j \in prompts'
    BY <2>2, <1>4, <1>i DEF ResultHook, TypeOK
  <2>3. ASSUME NEW g \in Hosts, Handle(g) PROVE hook'[h] = j
    <3>1. g # h
      BY <2>1, <2>3 DEF Handle
    <3> QED
      BY <2>3, <3>1, <1>4, <1>i DEF Handle, TypeOK
  <2>4. UNCHANGED hook \/ Restart \/ \E g \in Hosts : Handle(g) \/ ResultHook(g)
    BY DEF Next, RequestStep, HostStep, Run, Proceed, Send, Confirm, Reject, SubmitSudo,
           CancelSudo, Resume, Register, SetOnline, StreamEnds, RemoveHost, Begin, Execute,
           Claim, Finish, Prune, flowVars, vars
  <2> QED
    BY <1>4, <2>2, <2>3, <2>4
<1> QED
  BY <1>p, <1>1, <1>2, <1>3, <1>4

LEMMA JobStep == RunnerInv /\ [Next]_vars => JobOK'
<1> SUFFICES ASSUME RunnerInv, [Next]_vars PROVE JobOK'
  OBVIOUS
<1>k. Kept /\ JobMoves
  BY KeptStep, JobMovesStep
<1>1. ASSUME NEW j \in Requests, job'[j] \in Terminal
      PROVE  work'[j] \notin {"begun", "running"} /\ Settled(j)'
  <2>1. CASE job[j] \in Terminal
    BY <2>1, StaysSettled, FinishedStays
  <2>2. CASE Failed(j)
    <3>1. work[j] = "none" /\ UNCHANGED <<work, answers>>
      BY <2>2 DEF Failed, RunnerInv, RequestOK
    <3>2. Quiet(j)
      BY <3>1 DEF RunnerInv, MessagesOK, MessageOK, Quiet
    <3> QED
      BY <3>1, <3>2 DEF Settled, Quiet
  <2>3. CASE Heard(j)
    <3>1. PICK h \in Hosts : /\ Handle(h) /\ Head(answers[h]).job = j
                             /\ Head(answers[h]).kind # "ack"
                             /\ Head(answers[h]).state \in Terminal
      BY <1>1, <2>3 DEF Heard
    <3>2. MessageOK(h, Head(answers[h]))
      BY <3>1, AnswerHead DEF Handle
    <3>3. work[j] \in Terminal \cup {"claimed"}
      BY <3>1, <3>2 DEF MessageOK
    <3>4. work'[j] \in Terminal \cup {"claimed"}
      BY <3>3, <1>k DEF Kept
    <3>5. Settled(j)'
      BY <3>1, Remaining
    <3> QED
      BY <3>4, <3>5 DEF Terminal
  <2> QED
    BY <1>1, <1>k, <2>1, <2>2, <2>3 DEF JobMoves
<1>2. ASSUME NEW j \in Requests, job'[j] = "needs_sudo"
      PROVE  /\ work'[j] = "paused" /\ Quiet(j)'
             /\ j \in prompts' \/ (\E h \in Hosts : hook'[h] = j) \/ Answerers(j)' # {}
  <2>1. CASE job[j] = "needs_sudo"
    <3>1. work[j] = "paused" /\ Quiet(j)
      BY <2>1 DEF RunnerInv, JobOK
    <3>2. ~Restart
      BY <1>2 DEF Restart
    <3> QED
      BY <2>1, <3>1, <3>2, <1>k, StaysQuiet, PausedStays DEF Kept, Over
  <2>2. CASE Heard(j)
    <3>1. PICK h \in Hosts : /\ Handle(h) /\ Head(answers[h]).job = j
                             /\ Head(answers[h]).state = "needs_sudo"
                             /\ Head(answers[h]).kind = "result" => hook'[h] = j
      BY <1>2, <2>2 DEF Heard
    <3>2. MessageOK(h, Head(answers[h]))
      BY <3>1, AnswerHead DEF Handle
    <3>3. Head(answers[h]).kind = "result" /\ work[j] = "paused"
      BY <3>1, <3>2 DEF MessageOK
    <3>4. work'[j] = "paused"
      BY <3>3, <1>k DEF Kept, Over
    <3>5. Quiet(j)'
      BY <3>1, <3>3, Remaining
    <3> QED
      BY <3>1, <3>3, <3>4, <3>5
  <2> QED
    BY <1>2, <1>k, <2>1, <2>2 DEF JobMoves
<1> QED
  BY <1>1, <1>2 DEF JobOK, Settled

\* A hook starts with a result, and ends by looking at its job.
LEMMA HookMoves ==
    ASSUME RunnerInv, [Next]_vars, NEW h \in Hosts, hook'[h] # NoJob
    PROVE  \/ hook[h] = hook'[h]
           \/ /\ Handle(h) /\ Head(answers[h]).kind = "result"
              /\ Head(answers[h]).job = hook'[h]
<1>i. TypeOK
  BY DEF RunnerInv
<1>1. ASSUME NEW g \in Hosts, ResultHook(g) PROVE hook[h] = hook'[h]
  BY <1>1, <1>i DEF ResultHook, TypeOK
<1>2. ASSUME NEW g \in Hosts, Handle(g), hook[h] # hook'[h]
      PROVE  /\ Handle(h) /\ Head(answers[h]).kind = "result"
             /\ Head(answers[h]).job = hook'[h]
  BY <1>2, <1>i DEF Handle, TypeOK
<1>3. CASE Restart
  BY <1>3 DEF Restart
<1>4. UNCHANGED hook \/ Restart \/ \E g \in Hosts : Handle(g) \/ ResultHook(g)
  BY DEF Next, RequestStep, HostStep, Run, Proceed, Send, Confirm, Reject, SubmitSudo,
         CancelSudo, Resume, Register, SetOnline, StreamEnds, RemoveHost, Begin, Execute,
         Claim, Finish, Prune, flowVars, vars
<1> QED
  BY <1>1, <1>2, <1>3, <1>4

LEMMA PromptStep == RunnerInv /\ [Next]_vars => PromptOK'
<1> SUFFICES ASSUME RunnerInv, [Next]_vars PROVE PromptOK'
  OBVIOUS
<1>i. TypeOK /\ CallOK /\ JobOK /\ PromptOK
  BY DEF RunnerInv
<1>k. Kept /\ Gained
  BY KeptStep, GainedStep
<1>n. \A j \in Requests : j # NoJob
  BY RunnerAssumption DEF RunnerAssumption
<1>1. ASSUME NEW j \in prompts' PROVE job'[j] = "needs_sudo" /\ \A h \in Hosts : hook'[h] # j
  <2>1. CASE j \in prompts
    <3>1. j \in Requests /\ job[j] = "needs_sudo" /\ Quiet(j) /\ \A h \in Hosts : hook[h] # j
      BY <2>1, <1>i DEF TypeOK, PromptOK, JobOK
    <3>2. ~Restart
      BY <1>1 DEF Restart
    <3>3. ASSUME NEW h \in Hosts, Handle(h) PROVE Head(answers[h]).job # j
      BY <3>1, <3>3, AnswerHead DEF Handle
    <3> QED
      BY <1>n, <3>1, <3>2, <3>3, PausedStays, HookMoves
  <2>2. CASE j \notin prompts
    <3>1. PICK h \in Hosts : hook[h] = j /\ j # NoJob /\ job[j] = "needs_sudo"
      BY <2>2, <1>k DEF Gained
    <3>2. j \in Requests
      BY <3>1, Called
    <3>3. ResultHook(h) /\ UNCHANGED job
      <4>1. ASSUME NEW g \in Hosts, ResultHook(g) PROVE ResultHook(h) /\ UNCHANGED job
        <5>1. hook[g] = j
          BY <1>1, <2>2, <4>1 DEF ResultHook
        <5>2. g = h
          BY <3>1, <5>1, <1>i DEF PromptOK
        <5> QED
          BY <4>1, <5>2 DEF ResultHook
      <4>2. prompts' \subseteq prompts \/ \E g \in Hosts : ResultHook(g)
        BY DEF Next, RequestStep, HostStep, Run, Proceed, Send, Confirm, Reject, SubmitSudo,
               CancelSudo, Resume, Register, SetOnline, StreamEnds, RemoveHost, Begin, Execute,
               Claim, Finish, Handle, Prune, Restart, runnerVars, vars
      <4> QED
        BY <1>1, <2>2, <4>1, <4>2
    <3>4. \A g \in Hosts : g # h => hook[g] # j
      BY <3>1, <1>i DEF PromptOK
    <3> QED
      BY <3>1, <3>3, <3>4, <1>i DEF ResultHook, TypeOK
  <2> QED
    BY <2>1, <2>2
\* Nobody answers what has no prompt, and a prompt needs its hook to have run.
<1>2. ASSUME NEW j \in Requests, Answerers(j)' # {}
      PROVE  Answerers(j) # {} \/ j \in prompts
  BY <1>2, <1>k DEF Answerers, Takers, Kept, Gained, NewCall
<1>3. ASSUME NEW h \in Hosts, hook'[h] # NoJob
      PROVE  /\ call'[hook'[h]] # NoCall /\ call'[hook'[h]].host = h
             /\ work'[hook'[h]] \in Over
             /\ \A g \in Hosts : \A i \in 1 .. Len(answers'[g]) : answers'[g][i].job # hook'[h]
             /\ \A r \in Requests :
                   call'[r] # NoCall /\ call'[r].op \in {"submit", "cancel"}
                       => call'[r].of # hook'[h]
  <2>1. PICK j \in Requests : j = hook'[h]
    <3>1. hook'[h] \in Requests \cup {NoJob}
      BY TypeStep DEF TypeOK
    <3> QED
      BY <1>3, <3>1
  <2> SUFFICES /\ call[j] # NoCall /\ call[j].host = h /\ work[j] \in Over
               /\ Quiet(j)' /\ Answerers(j)' = {}
    BY <2>1, <1>k DEF Kept, Quiet, Answerers, Takers
  <2>2. CASE hook[h] = hook'[h]
    <3>1. /\ call[j] # NoCall /\ call[j].host = h /\ work[j] \in Over
          /\ Quiet(j) /\ Answerers(j) = {} /\ j \notin prompts
      BY <1>3, <2>1, <2>2, <1>i DEF PromptOK
    <3> QED
      BY <3>1, <1>2, StaysQuiet
  <2>3. CASE Handle(h) /\ Head(answers[h]).kind = "result" /\ Head(answers[h]).job = hook'[h]
    <3>1. MessageOK(h, Head(answers[h])) /\ ~Quiet(Head(answers[h]).job)
      BY <2>3, AnswerHead DEF Handle
    <3>2. call[j] # NoCall /\ call[j].host = h /\ work[j] \in Over /\ ~Quiet(j)
      BY <2>1, <2>3, <3>1 DEF MessageOK
    <3>3. Quiet(j)'
      BY <2>1, <2>3, Remaining
    <3>4. Answerers(j) = {} /\ j \notin prompts
      BY <3>2, <1>i DEF PromptOK, JobOK
    <3> QED
      BY <3>2, <3>3, <3>4, <1>2
  <2> QED
    BY <1>3, <2>2, <2>3, HookMoves
<1>4. ASSUME NEW j \in Requests, Answerers(j)' # {} PROVE Quiet(j)'
  <2>1. CASE Answerers(j) # {}
    <3>1. Quiet(j) /\ work[j] = "paused"
      BY <2>1, <1>i DEF PromptOK, CallOK, CallGood, Answerers, Takers
    <3> QED
      BY <3>1, StaysQuiet DEF Over
  <2>2. CASE j \in prompts
    <3>1. Quiet(j) /\ work[j] = "paused"
      BY <2>2, <1>i DEF PromptOK, JobOK
    <3> QED
      BY <3>1, StaysQuiet DEF Over
  <2> QED
    BY <1>2, <1>4, <2>1, <2>2
<1> QED
  BY <1>1, <1>3, <1>4 DEF PromptOK, Quiet, Answerers, Takers

-----------------------------------------------------------------------------
LEMMA InitRunnerInv == Init => RunnerInv
<1> SUFFICES ASSUME Init PROVE RunnerInv
  OBVIOUS
<1>1. /\ TypeOK /\ \A r \in Requests : job[r] = "none" /\ call[r] = NoCall /\ work[r] = "none"
      /\ \A r \in Requests : pc[r] = "new"
      /\ approvals = {} /\ prompts = {}
      /\ \A h \in Hosts : wire[h] = <<>> /\ answers[h] = <<>> /\ hook[h] = NoJob
  BY TypeInit DEF Init
<1>2. /\ \A h \in Hosts : \A i \in 1 .. Len(wire[h]) : FALSE
      /\ \A h \in Hosts : \A i \in 1 .. Len(answers[h]) : FALSE
  BY <1>1
<1>3. RequestOK /\ CallOK /\ DecidedOnce
  BY <1>1 DEF RequestOK, CallOK, DecidedOnce, Deciders, Answerers, Takers
<1>4. WireOK /\ MessagesOK
  BY <1>2 DEF WireOK, MessagesOK
<1>5. DispatchedOK
  BY <1>1, <1>2 DEF DispatchedOK, Dispatched
<1>6. JobOK /\ PromptOK
  BY <1>1 DEF JobOK, PromptOK, Terminal, Answerers, Takers
<1> QED
  BY <1>1, <1>3, <1>4, <1>5, <1>6 DEF RunnerInv

LEMMA NextRunnerInv == RunnerInv /\ [Next]_vars => RunnerInv'
  BY TypeStep, RequestStepOK, CallStep, DecidedStep, WireStep, DispatchedStep, MessagesStep,
     JobStep, PromptStep DEF RunnerInv

\* RunnerInv is inductive: it holds of every state of the runner, the hub's queues and
\* the associates' answers.
THEOREM RunnerInvariant == Spec => []RunnerInv
  BY InitRunnerInv, NextRunnerInv, PTL DEF Spec

\* Every state is of its type: channels never exceed their capacity, and a request that
\* has something left to do knows what it is doing.
THEOREM RunnerTypeCorrect == Spec => []TypeOK
<1>1. RunnerInv => TypeOK
  BY DEF RunnerInv
<1> QED
  BY <1>1, RunnerInvariant, PTL

\* Two operators, or a double click, never decide one approval or answer one prompt twice.
THEOREM DecisionsOnce == Spec => []ResolvedOnce
<1>1. RunnerInv => ResolvedOnce
  <2> SUFFICES ASSUME RunnerInv, NEW id \in Requests
               PROVE  /\ \A r, s \in Deciders(id) : r = s
                      /\ \A r, s \in Answerers(id) : r = s
                      /\ id \in approvals => Deciders(id) = {}
                      /\ id \in prompts => Answerers(id) = {}
    BY DEF ResolvedOnce, Deciders, Answerers
  <2>1. \A q \in Deciders(id) : id \notin approvals
    BY DEF RunnerInv, CallOK, CallGood, Deciders, Takers
  <2>2. \A q \in Answerers(id) : id \notin prompts
    BY DEF RunnerInv, CallOK, CallGood, Answerers, Takers
  <2> QED
    BY <2>1, <2>2 DEF RunnerInv, DecidedOnce
<1> QED
  BY <1>1, RunnerInvariant, PTL

\* A destructive action of a host whose manifest was listed reaches that host only when it
\* was opted in at scheduling, confirmed, or resumed with the password of a paused job.
THEOREM DestructiveSanctioned == Spec => []DestructiveIsSanctioned
<1>1. RunnerInv => DestructiveIsSanctioned
  <2> SUFFICES ASSUME RunnerInv, NEW r \in Requests, Reached(r),
                      call[r].action \in Destructive, call[r].listed
               PROVE  Sanctioned(r)
    BY DEF DestructiveIsSanctioned
  <2>1. Dispatched(r)
    <3>1. \A h \in Hosts : r \in Range(wire[h]) =>
             \E i \in 1 .. Len(wire[h]) : wire[h][i] = r
      BY DEF RunnerInv, TypeOK, Range
    <3> QED
      BY <3>1 DEF Reached, Dispatched
  <2>2. /\ call[r] # NoCall /\ ~call[r].ask /\ call[r].op \notin {"reject", "cancel"}
        /\ CallGood(r) /\ call[r] \in Calls
    BY <2>1 DEF RunnerInv, DispatchedOK, CallOK, TypeOK
  <2>3. call[r].of \in Requests /\ call[r].op \in {"run", "confirm", "submit"}
    BY <2>2 DEF Calls
  <2>4. CASE call[r].op = "run"
    BY <2>2, <2>4 DEF CallGood, Sanctioned
  <2>5. CASE call[r].op = "confirm"
    <3>1. call[call[r].of] # NoCall /\ call[call[r].of].ask /\ call[r].of \notin approvals
      BY <2>2, <2>5 DEF CallGood
    <3>2. call[call[r].of].op = "run"
      BY <2>3, <3>1 DEF RunnerInv, CallOK, CallGood
    <3> QED
      BY <2>5, <3>1, <3>2 DEF Sanctioned
  <2>6. CASE call[r].op = "submit"
    BY <2>2, <2>6 DEF CallGood, Sanctioned
  <2> QED
    BY <2>3, <2>4, <2>5, <2>6
<1> QED
  BY <1>1, RunnerInvariant, PTL

\* What the registry shows as finished is neither queued for its host nor running there:
\* a dispatch that has failed never runs.
THEOREM FinishedJobsAreOver == Spec => []FinishedIsOver
<1>1. RunnerInv => FinishedIsOver
  <2> SUFFICES ASSUME RunnerInv, NEW j \in Requests, job[j] \in Terminal
               PROVE  /\ work[j] \notin {"begun", "running"}
                      /\ \A h \in Hosts : j \notin Range(wire[h])
    BY DEF FinishedIsOver
  <2>1. \A h \in Hosts : j \notin Range(wire[h])
    <3> SUFFICES ASSUME NEW h \in Hosts, j \in Range(wire[h]) PROVE FALSE
      OBVIOUS
    <3>1. PICK i \in 1 .. Len(wire[h]) : wire[h][i] = j
      BY DEF RunnerInv, TypeOK, Range
    <3> QED
      BY <3>1 DEF RunnerInv, WireOK
  <2> QED
    BY <2>1 DEF RunnerInv, JobOK
<1> QED
  BY <1>1, RunnerInvariant, PTL

\* No prompt is left without its paused job, and no paused job without a prompt, a hook
\* about to raise it, or an operator who took it.
THEOREM PausesHavePrompts == Spec => []PausedHasPrompt
<1>1. RunnerInv => PausedHasPrompt
  <2>1. RunnerInv => \A j \in prompts : job[j] = "needs_sudo"
    BY DEF RunnerInv, PromptOK
  <2>2. RunnerInv => \A j \in Requests : job[j] = "needs_sudo" =>
           j \in prompts \/ (\E h \in Hosts : hook[h] = j) \/ Takers(j, {"submit", "cancel"}) # {}
    BY DEF RunnerInv, JobOK, Answerers
  <2> QED
    BY <2>1, <2>2 DEF PausedHasPrompt
<1> QED
  BY <1>1, RunnerInvariant, PTL

\* A finished job is never shown as queued, running or paused again: what is still on its
\* way of it is terminal, and no request that would touch it is left.
THEOREM NeverResurrected == Spec => NoResurrection
<1>1. RunnerInv /\ [Next]_vars =>
         [\A j \in Requests : job[j] \in Terminal => job'[j] \in Terminal \cup {"pruned"}]_vars
  <2> SUFFICES ASSUME RunnerInv, [Next]_vars, NEW j \in Requests, job[j] \in Terminal
               PROVE  job'[j] \in Terminal \cup {"pruned"}
    OBVIOUS
  <2>i. TypeOK /\ RequestOK /\ JobOK
    BY DEF RunnerInv
  <2>1. ASSUME NEW r \in Requests, Proceed(r) \/ Send(r) PROVE job'[j] = job[j]
    BY <2>1, <2>i DEF Proceed, Send, Recorded, TypeOK, RequestOK, Terminal
  <2>2. ASSUME NEW h \in Hosts, Handle(h) PROVE job'[j] \in Terminal
    <3> DEFINE m == Head(answers[h])
    <3>1. m.job = j /\ m.kind # "ack" => m.state \in Terminal
      <4>1. answers[h] # <<>> /\ answers[h] \in Seq(Messages)
        BY <2>2, <2>i DEF Handle, TypeOK
      <4>2. 1 \in 1 .. Len(answers[h]) /\ m = answers[h][1]
        BY <4>1
      <4> QED
        BY <4>2, <2>i DEF JobOK
    <3> HIDE DEF m
    <3>2. job' = job \/ (m.kind # "ack" /\ job' = [job EXCEPT ![m.job] = m.state])
      BY <2>2 DEF Handle, Recorded, m
    <3> QED
      BY <3>1, <3>2, <2>i DEF TypeOK
  <2>3. CASE Prune
    BY <2>3, <2>i DEF Prune, TypeOK
  <2>4. CASE Restart
    BY <2>4 DEF Restart, Terminal
  <2>5. \/ UNCHANGED job
        \/ \E r \in Requests : Proceed(r) \/ Send(r)
        \/ \E h \in Hosts : Handle(h)
        \/ Prune \/ Restart
    BY DEF Next, RequestStep, HostStep, Run, Confirm, Reject, SubmitSudo, CancelSudo,
           Resume, Register, SetOnline, StreamEnds, RemoveHost, Begin, Execute, Claim, Finish,
           ResultHook, vars
  <2> QED
    BY <2>1, <2>2, <2>3, <2>4, <2>5
<1> QED
  BY <1>1, RunnerInvariant, PTL DEF Spec, NoResurrection

-----------------------------------------------------------------------------
(* A job lives a JobLife: the invariant it takes, then step by step. *)

\* A command on its way is shown as queued.
QueuedOK == \A h \in Hosts : \A i \in 1 .. Len(wire[h]) : job[wire[h][i]] = "queued"

\* Nothing is on its way of what went down with a stream.
LostOK ==
    \A j \in lost : /\ pc[j] = "done" /\ job[j] # "none" /\ Quiet(j)
                    /\ \A h \in Hosts : \A i \in 1 .. Len(wire[h]) : wire[h][i] # j

\* What a host says is true of the work behind it, and stays true.
TrueTo(m) ==
    LET w == work[m.job] IN
    /\ m.kind = "event" =>
          \/ m.state = "running" /\ w \in {"running", "claimed"} \cup Terminal
          \/ m.state = "succeeded" /\ w \in {"claimed", "succeeded", "failed"}
    /\ m.kind = "result" =>
          \/ m.state = "needs_sudo" /\ w = "paused"
          \/ m.state \in Terminal /\ w = m.state

TruthOK == \A h \in Hosts : \A i \in 1 .. Len(answers[h]) : TrueTo(answers[h][i])

\* What is shown of a job tells how much of it is still to come.
Unheard(j) == job[j] \in {"queued", "running", "succeeded"}

ShownOK ==
    \A j \in Requests :
        /\ job[j] = "none" => work[j] = "none"
        /\ work[j] = "none" => job[j] \in {"none", "queued", "failed", "pruned"}
        /\ ~Quiet(j) => Unheard(j)
        /\ job[j] \in {"failed", "timed_out"} => work[j] \in {"none"} \cup Terminal
        /\ job[j] = "pruned" => j \in lost \/ work[j] \in {"none"} \cup Over

\* A job whose work is over has its result on the way until it is handled.
Expected(j) ==
    \E h \in Hosts : \E i \in 1 .. Len(answers[h]) :
        answers[h][i].job = j /\ answers[h][i].kind = "result"

LastOK == \A j \in Requests : work[j] \in Over => Quiet(j) \/ Expected(j)

LifeInv == RunnerInv /\ QueuedOK /\ LostOK /\ TruthOK /\ ShownOK /\ LastOK

LEMMA CutOffIs ==
    ASSUME RunnerInv, NEW h \in Hosts, NEW j \in CutOff(h)
    PROVE  /\ j \in Requests /\ pc[j] = "done" /\ call[j] # NoCall /\ call[j].host = h
           /\ \/ work[j] \in {"begun", "running", "claimed"} \/ ~Quiet(j)
              \/ work[j] = "none" /\ \E i \in 1 .. Len(wire[h]) : wire[h][i] = j
<1>t. TypeOK /\ RequestOK
  BY DEF RunnerInv
<1>1. CASE j \in Range(wire[h])
  <2>0. wire[h] \in Seq(Requests)
    BY <1>t DEF TypeOK
  <2>1. PICK i \in 1 .. Len(wire[h]) : wire[h][i] = j
    BY <1>1, <2>0 DEF Range
  <2>2. j \in Requests
    BY <2>1, <1>t DEF TypeOK
  <2> QED
    BY <2>1, <2>2 DEF RunnerInv, WireOK
<1>2. ASSUME NEW m \in Range(answers[h]), m.job = j
      PROVE  /\ j \in Requests /\ pc[j] = "done" /\ call[j] # NoCall /\ call[j].host = h
             /\ ~Quiet(j)
  <2>0. answers[h] \in Seq(Messages)
    BY <1>t DEF TypeOK
  <2>1. PICK i \in 1 .. Len(answers[h]) : answers[h][i] = m
    BY <1>2, <2>0 DEF Range
  <2>2. MessageOK(h, m) /\ m \in Messages
    BY <2>1, <1>t DEF RunnerInv, MessagesOK, TypeOK
  <2> QED
    BY <1>2, <2>1, <2>2, <1>t DEF MessageOK, Messages, RequestOK, Quiet
<1>3. CASE j \in Jobs(h) /\ work[j] \in {"begun", "running", "claimed"}
  BY <1>3, <1>t DEF Jobs, RequestOK
<1> QED
  BY <1>1, <1>2, <1>3 DEF CutOff

\* Only its own host has commands and messages of a job.
LEMMA Elsewhere ==
    ASSUME RunnerInv, NEW h \in Hosts, NEW g \in Hosts, g # h, NEW j, call[j].host = h
    PROVE  /\ \A i \in 1 .. Len(wire[g]) : wire[g][i] # j
           /\ \A i \in 1 .. Len(answers[g]) : answers[g][i].job # j
  BY DEF RunnerInv, WireOK, MessagesOK, MessageOK

LEMMA LastWordIs ==
    TypeOK => \A j \in Requests : HasLastWord(j) <=> work[j] \in Over /\ j \notin lost /\ Quiet(j)
<1> SUFFICES ASSUME TypeOK, NEW j \in Requests
             PROVE  HasLastWord(j) <=> work[j] \in Over /\ j \notin lost /\ Quiet(j)
  OBVIOUS
<1>1. ASSUME NEW h \in Hosts
      PROVE  (\A m \in Range(answers[h]) : m.job # j)
                <=> (\A i \in 1 .. Len(answers[h]) : answers[h][i].job # j)
  <2> DEFINE q == answers[h]
  <2>1. DOMAIN q = 1 .. Len(q)
    BY DEF TypeOK
  <2> HIDE DEF q
  <2>2. (\A m \in Range(q) : m.job # j) <=> (\A i \in 1 .. Len(q) : q[i].job # j)
    BY <2>1 DEF Range
  <2> QED
    BY <2>2 DEF q
<1> QED
  BY <1>1 DEF HasLastWord, Over, Quiet

LEMMA NextLastWordIs ==
    TypeOK' => (\A j \in Requests : HasLastWord(j) <=> work[j] \in Over /\ j \notin lost /\ Quiet(j))'
  BY LastWordIs, PTL

-----------------------------------------------------------------------------
\* The associate takes a job on, works on it or is done with it, and says so.
Advances(j) ==
    \/ work[j] = "none" /\ work'[j] = "begun" /\ job[j] = "queued"
    \/ work[j] \in {"begun", "running", "claimed"} /\ LifeOf!LeadsTo(work[j], work'[j])

Utters(h, m) ==
    /\ Speaks(h, m) /\ TrueTo(m)' /\ m.job \notin lost /\ Unheard(m.job)
    /\ Advances(m.job) /\ \A q \in Requests : q # m.job => work'[q] = work[q]
    /\ work'[m.job] \in Over => m.kind = "result"
    /\ UNCHANGED lost
    /\ UNCHANGED wire \/ (Begin(h) /\ m.job = Head(wire[h]))

LEMMA SaidOnce ==
    ASSUME TypeOK, NEW h \in Hosts, NEW m \in Messages, NEW n \in Messages, Says(h, m), Says(h, n)
    PROVE  m = n
<1> DEFINE q == answers[h]
<1>1. q \in Seq(Messages) /\ answers'[h] = Append(q, m) /\ answers'[h] = Append(q, n)
  BY DEF TypeOK, Says
<1> HIDE DEF q
<1>2. Append(q, m)[Len(q) + 1] = m
  BY <1>1, Put
<1>3. Append(q, n)[Len(q) + 1] = n
  BY <1>1, Put
<1> QED
  BY <1>1, <1>2, <1>3

LEMMA Uttered ==
    ASSUME LifeInv, [Next]_vars, NEW h \in Hosts,
           Begin(h) \/ \E j \in Requests : Execute(h, j) \/ Claim(h, j) \/ Finish(h, j)
    PROVE  \E m \in Messages : Utters(h, m)
<1>i. TypeOK /\ RunnerInv /\ QueuedOK /\ LostOK /\ ShownOK
  BY DEF LifeInv, RunnerInv
<1>n. ~(\E s \in Over : s \in {"none", "begun", "running", "claimed"})
  BY DEF Over, Terminal
\* A job the associate has in hand is one the registry waits for.
<1>u. ASSUME NEW j \in Requests, work[j] \in {"begun", "running", "claimed"}, j \notin lost
      PROVE  Unheard(j)
  <2>1. job[j] # "none" /\ job[j] # "pruned"
    BY <1>i, <1>u, <1>n DEF ShownOK
  <2>2. job[j] # "needs_sudo"
    BY <1>i, <1>u DEF RunnerInv, JobOK
  <2>3. job[j] \notin {"failed", "timed_out"}
    BY <1>i, <1>u, <1>n DEF ShownOK, Over
  <2> QED
    BY <2>1, <2>2, <2>3, <1>i DEF TypeOK, Terminal, Open, Unheard
<1>1. CASE Begin(h)
  <2>1. PICK j \in Requests : j = Head(wire[h]) /\ work[j] = "none" /\ wire[h] # <<>>
    BY <1>1, <1>i, WireHead DEF Begin
  <2>2. 1 \in 1 .. Len(wire[h]) /\ j = wire[h][1]
    BY <2>1, <1>i, Get DEF TypeOK
  <2>3. job[j] = "queued" /\ j \notin lost
    BY <2>2, <1>i DEF QueuedOK, LostOK
  <2>4. Ack(j) \in Messages /\ Ack(j).job = j /\ Ack(j).kind = "ack" /\ Says(h, Ack(j))
    BY <1>1, <2>1, Messaged DEF Begin, Ack
  <2>5. Speaks(h, Ack(j))
    BY <1>1, <1>i, <2>4, Speech, SaidOnce DEF Speaks
  <2>6. work'[j] = "begun" /\ (\A q \in Requests : q # j => work'[q] = work[q]) /\ UNCHANGED lost
    BY <1>1, <2>1, <1>i DEF Begin, TypeOK
  <2>7. TrueTo(Ack(j))'
    BY <2>4 DEF TrueTo
  <2>8. "begun" \notin Over
    BY DEF Over, Terminal
  <2>9. Utters(h, Ack(j))
    BY <1>1, <2>1, <2>3, <2>4, <2>5, <2>6, <2>7, <2>8 DEF Utters, Advances, Unheard
  <2> QED
    BY <2>4, <2>9
<1>2. ASSUME NEW j \in Requests, Execute(h, j) PROVE \E m \in Messages : Utters(h, m)
  <2>1. PICK st \in {"needs_sudo", "running"}, m \in Messages :
           /\ st = "needs_sudo" => m = Result(j, st) /\ work' = [work EXCEPT ![j] = "paused"]
           /\ st = "running" => m = Event(j, st) /\ work' = [work EXCEPT ![j] = "running"]
           /\ Says(h, m)
    BY <1>2, Messaged DEF Execute
  <2>2. work[j] = "begun" /\ j \notin lost /\ UNCHANGED <<wire, lost>>
    BY <1>2 DEF Execute
  <2>3. Speaks(h, m)
    BY <1>2, <1>i, <2>1, Speech, SaidOnce DEF Speaks
  <2>4. m.job = j /\ TrueTo(m)' /\ LifeOf!LeadsTo("begun", work'[j])
        /\ (work'[j] \in Over => m.kind = "result")
    BY <1>i, <2>1 DEF Result, Event, TrueTo, LifeOf!LeadsTo, TypeOK, Over, Terminal
  <2>5. \A q \in Requests : q # j => work'[q] = work[q]
    BY <1>i, <2>1 DEF TypeOK
  <2> QED
    BY <1>u, <2>2, <2>3, <2>4, <2>5 DEF Utters, Advances
<1>3. ASSUME NEW j \in Requests, Claim(h, j) PROVE \E m \in Messages : Utters(h, m)
  <2> DEFINE m == Event(j, "succeeded")
  <2>1. m \in Messages /\ Says(h, m) /\ m.job = j /\ m.kind = "event" /\ m.state = "succeeded"
    BY <1>3, Messaged DEF Claim, Event, Terminal
  <2>2. work[j] = "running" /\ j \notin lost /\ UNCHANGED <<wire, lost>>
    BY <1>3 DEF Claim
  <2>3. work'[j] = "claimed" /\ \A q \in Requests : q # j => work'[q] = work[q]
    BY <1>3, <1>i DEF Claim, TypeOK
  <2> HIDE DEF m
  <2>4. Speaks(h, m)
    BY <1>3, <1>i, <2>1, Speech, SaidOnce DEF Speaks
  <2>5. TrueTo(m)' /\ LifeOf!LeadsTo("running", work'[j]) /\ work'[j] \notin Over
    BY <2>1, <2>3 DEF TrueTo, LifeOf!LeadsTo, Over, Terminal
  <2> QED
    BY <1>u, <2>1, <2>2, <2>3, <2>4, <2>5 DEF Utters, Advances
<1>4. ASSUME NEW j \in Requests, Finish(h, j) PROVE \E m \in Messages : Utters(h, m)
  <2>1. PICK st \in Terminal :
           /\ \/ work[j] = "claimed" /\ st \in {"succeeded", "failed"}
              \/ work[j] \in {"running", "begun"}
           /\ work' = [work EXCEPT ![j] = st] /\ Says(h, Result(j, st))
    BY <1>4 DEF Finish
  <2> DEFINE m == Result(j, st)
  <2>2. m \in Messages /\ Says(h, m) /\ m.job = j /\ m.kind = "result" /\ m.state = st
    BY <2>1, Messaged DEF Result
  <2>3. j \notin lost /\ UNCHANGED <<wire, lost>>
    BY <1>4 DEF Finish
  <2>4. work'[j] = st /\ \A q \in Requests : q # j => work'[q] = work[q]
    BY <2>1, <1>i DEF TypeOK
  <2> HIDE DEF m
  <2>5. Speaks(h, m)
    BY <1>4, <1>i, <2>2, Speech, SaidOnce DEF Speaks
  <2>6. TrueTo(m)' /\ LifeOf!LeadsTo(work[j], work'[j])
    BY <2>1, <2>2, <2>4 DEF TrueTo, LifeOf!LeadsTo, LifeOf!Final, Terminal
  <2> QED
    BY <1>u, <2>1, <2>2, <2>3, <2>4, <2>5, <2>6 DEF Utters, Advances
<1> QED
  BY <1>1, <1>2, <1>3, <1>4

\* The kinds of steps a job takes.
LEMMA StepKinds ==
    ASSUME LifeInv, [Next]_vars
    PROVE  \/ UNCHANGED <<job, work, wire, answers, lost>>
           \/ \E r \in Requests : Proceed(r) \/ Send(r)
           \/ \E h \in Hosts : StreamEnds(h) \/ Handle(h) \/ \E m \in Messages : Utters(h, m)
           \/ Prune
           \/ Restart
  BY Uttered DEF Next, RequestStep, HostStep, Run, Confirm, Reject, SubmitSudo, CancelSudo,
         Resume, Register, SetOnline, RemoveHost, ResultHook, linkVars, flowVars, vars

\* What comes of a job on its host, whoever takes the step.
LEMMA WorkMoves ==
    ASSUME LifeInv, [Next]_vars, NEW j \in Requests
    PROVE  work'[j] = work[j] \/ Advances(j)
<1>1. ASSUME NEW h \in Hosts, NEW m \in Messages, Utters(h, m) PROVE work'[j] = work[j] \/ Advances(j)
  BY <1>1 DEF Utters
<1>2. UNCHANGED work \/ \E h \in Hosts, m \in Messages : Utters(h, m)
  BY StepKinds DEF Proceed, Send, StreamEnds, Handle, Prune, Restart, flowVars
<1> QED
  BY <1>1, <1>2

\* What the registry shows changes by a request, by what a host said, or by forgetting.
HandlesHead(h, m) ==
    /\ Handle(h) /\ m = Head(answers[h]) /\ m \in Messages /\ MessageOK(h, m) /\ TrueTo(m)
    /\ Unheard(m.job) /\ \A q \in Requests : q # m.job => job'[q] = job[q]
    /\ job'[m.job] = IF m.kind = "ack" THEN job[m.job] ELSE m.state
    /\ UNCHANGED <<pc, work, wire, lost>>

LEMMA Handled ==
    ASSUME LifeInv, NEW h \in Hosts, Handle(h)
    PROVE  \E m \in Messages : HandlesHead(h, m)
<1>i. RunnerInv /\ TypeOK /\ TruthOK /\ ShownOK
  BY DEF LifeInv, RunnerInv
<1>1. PICK m \in Messages : m = Head(answers[h]) /\ MessageOK(h, m) /\ ~Quiet(m.job)
  BY <1>i, AnswerHead DEF Handle
<1>2. m.job \in Requests
  BY DEF Messages
<1>3. Unheard(m.job)
  BY <1>1, <1>2, <1>i DEF ShownOK
<1>4. TrueTo(m)
  <2>1. answers[h] \in Seq(Messages) /\ answers[h] # <<>>
    BY <1>i DEF TypeOK, Handle
  <2>2. 1 \in 1 .. Len(answers[h]) /\ m = answers[h][1]
    BY <2>1, <1>1, Get
  <2> QED
    BY <2>2, <1>i DEF TruthOK
<1>5. InRegistry(m.job)
  BY <1>3 DEF Unheard, InRegistry, Terminal, Open
<1>6. job' = IF m.kind = "ack" THEN job ELSE [job EXCEPT ![m.job] = m.state]
  BY <1>1, <1>5 DEF Handle, Recorded
<1>7. UNCHANGED <<pc, work, wire, lost>>
  BY DEF Handle, runnerVars
<1> QED
  BY <1>1, <1>2, <1>3, <1>4, <1>6, <1>7, <1>i DEF HandlesHead, TypeOK

LEMMA QueuedStep == LifeInv /\ [Next]_vars => QueuedOK'
<1> SUFFICES ASSUME LifeInv, [Next]_vars, NEW h \in Hosts, NEW i \in 1 .. Len(wire'[h])
             PROVE  job'[wire'[h][i]] = "queued"
  BY DEF QueuedOK
<1>i. RunnerInv /\ TypeOK /\ QueuedOK /\ RequestOK
  BY DEF LifeInv, RunnerInv
<1>w. \A g \in Hosts : /\ wire[g] \in Seq(Requests)
                       /\ \A k \in 1 .. Len(wire[g]) :
                             /\ wire[g][k] \in Requests /\ job[wire[g][k]] = "queued"
                             /\ work[wire[g][k]] = "none" /\ pc[wire[g][k]] = "done"
  BY <1>i DEF TypeOK, QueuedOK, RunnerInv, WireOK
<1>1. CASE UNCHANGED <<job, wire>>
  BY <1>1, <1>w
<1>2. ASSUME NEW r \in Requests, Proceed(r) PROVE job'[wire'[h][i]] = "queued"
  <2>1. UNCHANGED wire /\ \A q \in Requests : q # r => job'[q] = job[q]
    BY <1>2, <1>i DEF Proceed, flowVars, TypeOK
  <2>2. pc[r] # "done"
    BY <1>2 DEF Proceed
  <2> QED
    BY <2>1, <2>2, <1>w
<1>3. ASSUME NEW r \in Requests, Send(r) PROVE job'[wire'[h][i]] = "queued"
  <2> DEFINE g == call[r].host
  <2>1. pc[r] = "created" /\ job[r] = "queued" /\ g \in Hosts
    BY <1>3, <1>i DEF Send, RequestOK, TypeOK, Calls
  <2>2. CASE UNCHANGED wire
    <3>1. \A q \in Requests : q # r => job'[q] = job[q]
      BY <1>3, <1>i DEF Send, Recorded, TypeOK
    <3> QED
      BY <2>1, <2>2, <3>1, <1>w
  <2>3. CASE wire' = [wire EXCEPT ![g] = Append(@, r)] /\ UNCHANGED job
    <3>1. CASE h = g
      <4>1. wire'[h] = Append(wire[h], r)
        BY <2>3, <3>1, <1>i DEF TypeOK
      <4>2. i \in 1 .. Len(wire[h]) \/ i = Len(wire[h]) + 1
        BY <4>1, <1>w, Put
      <4> QED
        BY <2>1, <2>3, <4>1, <4>2, <1>w, Put
    <3>2. CASE h # g
      BY <2>3, <3>2, <1>w, <1>i DEF TypeOK
    <3> QED
      BY <3>1, <3>2
  <2> QED
    BY <1>3, <2>2, <2>3 DEF Send
<1>4. ASSUME NEW g \in Hosts, NEW m \in Messages, Utters(g, m) PROVE job'[wire'[h][i]] = "queued"
  <2>1. UNCHANGED job
    BY <1>4 DEF Utters, Speaks
  <2>2. CASE UNCHANGED wire
    BY <2>1, <2>2, <1>1
  <2>3. CASE Begin(g)
    <3>1. wire[g] # <<>> /\ wire'[g] = Tail(wire[g]) /\ \A f \in Hosts : f # g => wire'[f] = wire[f]
      BY <2>3, <1>i DEF Begin, TypeOK
    <3>2. CASE h = g
      <4>0. /\ wire[h] \in Seq(Requests) /\ wire[h] # <<>> /\ wire'[h] = Tail(wire[h])
            /\ Len(wire[h]) \in Nat
        BY <3>1, <3>2, <1>w
      <4>1. i + 1 \in 1 .. Len(wire[h]) /\ wire'[h][i] = wire[h][i + 1]
        BY <4>0, Get
      <4> QED
        BY <2>1, <4>1, <1>w
    <3>3. CASE h # g
      BY <2>1, <3>1, <3>3, <1>w
    <3> QED
      BY <3>2, <3>3
  <2> QED
    BY <1>4, <2>2, <2>3 DEF Utters
<1>5. ASSUME NEW g \in Hosts, StreamEnds(g) PROVE job'[wire'[h][i]] = "queued"
  <2>1. wire'[g] = <<>> /\ UNCHANGED job /\ \A f \in Hosts : f # g => wire'[f] = wire[f]
    BY <1>5, <1>i DEF StreamEnds, TypeOK
  <2>2. h # g
    BY <2>1
  <2> QED
    BY <2>1, <2>2, <1>w
<1>6. ASSUME NEW g \in Hosts, Handle(g) PROVE job'[wire'[h][i]] = "queued"
  <2>1. PICK m \in Messages : HandlesHead(g, m)
    BY <1>6, Handled
  <2> QED
    BY <2>1, <1>w DEF HandlesHead, MessageOK
<1>7. CASE Prune
  <2>1. UNCHANGED wire /\ \A q \in Requests : job[q] = "queued" => job'[q] = "queued"
    BY <1>7, <1>i DEF Prune, Prunable, flowVars, Terminal, TypeOK
  <2> QED
    BY <2>1, <1>w
<1>8. CASE Restart
  <2>1. wire'[h] = <<>>
    BY <1>8 DEF Restart
  <2> QED
    BY <2>1
<1> QED
  BY <1>1, <1>2, <1>3, <1>4, <1>5, <1>6, <1>7, <1>8, StepKinds

LEMMA ShrunkOrUttered ==
    ASSUME LifeInv, [Next]_vars
    PROVE  Shrunk \/ \E h \in Hosts, m \in Messages : Utters(h, m)
<1>i. RunnerInv
  BY DEF LifeInv
<1>a. \A f \in Hosts : answers[f] \in Seq(Messages)
  BY <1>i DEF RunnerInv, TypeOK
<1>1. CASE \A g \in Hosts : answers'[g] = answers[g] \/ answers'[g] = <<>>
  <2>1. \A f \in Hosts : \A i \in 1 .. Len(answers'[f]) :
           i + 0 \in 1 .. Len(answers[f]) /\ answers'[f][i] = answers[f][i + 0]
    BY <1>1, <1>a
  <2> QED
    BY <2>1 DEF Shrunk
<1>2. ASSUME NEW h \in Hosts, StreamEnds(h)
      PROVE  \A g \in Hosts : answers'[g] = answers[g] \/ answers'[g] = <<>>
  BY <1>2, <1>i DEF StreamEnds, RunnerInv, TypeOK
<1>3. ASSUME Restart PROVE \A g \in Hosts : answers'[g] = <<>>
  BY <1>3 DEF Restart
<1> QED
  BY <1>i, <1>1, <1>2, <1>3, StepKinds, HandleShrinks DEF Proceed, Send, Prune, flowVars

\* A job that has no message gets none, but from its own host's work.
LEMMA QuietOrUttered ==
    ASSUME LifeInv, [Next]_vars, NEW j \in Requests, Quiet(j), ~Quiet(j)'
    PROVE  \E h \in Hosts, m \in Messages : Utters(h, m) /\ m.job = j
<1>i. RunnerInv
  BY DEF LifeInv
<1>1. ~Shrunk
  BY DEF Shrunk, Quiet
<1>2. PICK h \in Hosts, m \in Messages : Utters(h, m)
  BY <1>1, ShrunkOrUttered
<1>3. Speaks(h, m)
  BY <1>2 DEF Utters
<1>4. m.job = j
  BY <1>3, <1>i, Spoken DEF Quiet
<1> QED
  BY <1>2, <1>4

LEMMA LostStep == LifeInv /\ [Next]_vars => LostOK'
<1> SUFFICES ASSUME LifeInv, [Next]_vars, NEW j \in lost'
             PROVE  /\ pc'[j] = "done" /\ job'[j] # "none" /\ Quiet(j)'
                    /\ \A h \in Hosts : \A i \in 1 .. Len(wire'[h]) : wire'[h][i] # j
  BY DEF LostOK, Quiet
<1>i. RunnerInv /\ TypeOK /\ RequestOK /\ QueuedOK /\ LostOK /\ ShownOK
  BY DEF LifeInv, RunnerInv
<1>w. \A g \in Hosts : wire[g] \in Seq(Requests)
  BY <1>i DEF TypeOK
\* A job the registry has had is one it has or has forgotten.
<1>n. ASSUME j \in Requests, job[j] # "none" PROVE job'[j] # "none"
  <2>1. ASSUME NEW g \in Hosts, Handle(g) PROVE job'[j] # "none"
    <3>1. PICK m \in Messages : HandlesHead(g, m)
      BY <2>1, Handled
    <3> QED
      BY <3>1, <1>n DEF HandlesHead, Messages, Terminal, Open
  <2>2. ASSUME NEW r \in Requests, Proceed(r) \/ Send(r) PROVE job'[j] # "none"
    BY <2>2, <1>n, <1>i DEF Proceed, Send, Recorded, TypeOK
  <2>3. CASE Prune \/ Restart
    BY <2>3, <1>n, <1>i DEF Prune, Restart
  <2>4. UNCHANGED job \/ Prune \/ Restart \/ (\E g \in Hosts : Handle(g))
        \/ \E r \in Requests : Proceed(r) \/ Send(r)
    BY StepKinds DEF StreamEnds, Utters, Speaks
  <2> QED
    BY <1>n, <2>1, <2>2, <2>3, <2>4
<1>1. CASE j \in lost
  <2>1. /\ j \in Requests /\ pc[j] = "done" /\ job[j] # "none" /\ Quiet(j)
        /\ \A h \in Hosts : \A i \in 1 .. Len(wire[h]) : wire[h][i] # j
    BY <1>1, <1>i DEF LostOK, TypeOK
  <2>2. pc'[j] = "done" /\ job'[j] # "none"
    BY <2>1, <1>n, <1>i, KeptStep DEF Kept
  <2>3. Quiet(j)'
    BY <1>1, <2>1, QuietOrUttered DEF Utters
  <2>4. \A h \in Hosts : \A i \in 1 .. Len(wire'[h]) : wire'[h][i] # j
    <3> SUFFICES ASSUME NEW h \in Hosts, NEW i \in 1 .. Len(wire'[h]), wire'[h][i] = j PROVE FALSE
      OBVIOUS
    <3>1. ASSUME NEW r \in Requests, Send(r) PROVE FALSE
      <4>1. pc[r] = "created" /\ r # j /\ call[r].host \in Hosts
        BY <3>1, <2>1, <1>i DEF Send, TypeOK, Calls
      <4>2. wire' = wire \/ wire' = [wire EXCEPT ![call[r].host] = Append(@, r)]
        BY <3>1 DEF Send
      <4>3. wire'[h] = wire[h] \/ wire'[h] = Append(wire[h], r)
        BY <4>1, <4>2, <1>i DEF TypeOK
      <4> QED
        BY <2>1, <4>1, <4>3, <1>w, Put
    <3>2. ASSUME NEW g \in Hosts, Begin(g) PROVE FALSE
      <4>1. wire'[h] = wire[h] \/ (wire[h] # <<>> /\ wire'[h] = Tail(wire[h]))
        BY <3>2, <1>i DEF Begin, TypeOK
      <4>2. CASE wire[h] # <<>> /\ wire'[h] = Tail(wire[h])
        <5>1. wire[h] \in Seq(Requests) /\ Len(wire[h]) \in Nat
          BY <1>w
        <5>2. i + 1 \in 1 .. Len(wire[h]) /\ wire'[h][i] = wire[h][i + 1]
          BY <4>2, <5>1, Get
        <5> QED
          BY <5>2, <2>1
      <4> QED
        BY <2>1, <4>1, <4>2
    <3>3. ASSUME NEW g \in Hosts, StreamEnds(g) PROVE FALSE
      BY <3>3, <2>1, <1>i DEF StreamEnds, TypeOK
    <3>4. ~Restart
      BY DEF Restart
    <3> QED
      BY <1>i, <2>1, <3>1, <3>2, <3>3, <3>4, QuietWire
  <2> QED
    BY <2>2, <2>3, <2>4
<1>2. CASE j \notin lost
  <2>1. \/ Restart /\ \E h \in Hosts : j \in CutOff(h)
        \/ \E h \in Hosts : StreamEnds(h) /\ j \in CutOff(h)
    BY <1>2, StepKinds DEF Proceed, Send, Utters, Handle, Prune, Restart, StreamEnds, flowVars
  <2>2. PICK h \in Hosts : j \in CutOff(h) /\ (Restart \/ StreamEnds(h))
    BY <2>1
  <2>3. /\ j \in Requests /\ pc[j] = "done" /\ call[j] # NoCall /\ call[j].host = h
        /\ \/ work[j] \in {"begun", "running", "claimed"} \/ ~Quiet(j)
           \/ work[j] = "none" /\ \E i \in 1 .. Len(wire[h]) : wire[h][i] = j
    BY <2>2, <1>i, CutOffIs
  <2>4. job[j] # "none"
    BY <2>3, <1>i DEF ShownOK, QueuedOK, Unheard
  <2>5. pc'[j] = "done" /\ job'[j] # "none"
    BY <2>3, <2>4, <1>n, <1>i, KeptStep DEF Kept
  <2>6. Quiet(j)' /\ \A g \in Hosts : \A i \in 1 .. Len(wire'[g]) : wire'[g][i] # j
    <3>1. CASE Restart
      BY <3>1 DEF Restart, Quiet
    <3>2. CASE StreamEnds(h)
      <4>1. /\ wire'[h] = <<>> /\ answers'[h] = <<>>
            /\ \A g \in Hosts : g # h => wire'[g] = wire[g] /\ answers'[g] = answers[g]
        BY <3>2, <1>i DEF StreamEnds, TypeOK
      <4> QED
        BY <4>1, <2>3, <1>i, Elsewhere DEF Quiet
    <3> QED
      BY <2>2, <3>1, <3>2
  <2> QED
    BY <2>5, <2>6
<1> QED
  BY <1>1, <1>2

LEMMA TruthStep == LifeInv /\ [Next]_vars => TruthOK'
<1> SUFFICES ASSUME LifeInv, [Next]_vars PROVE TruthOK'
  OBVIOUS
<1>i. RunnerInv /\ TypeOK /\ TruthOK
  BY DEF LifeInv, RunnerInv
\* What is true of a job's work stays true as the work advances.
<1>1. ASSUME NEW m \in Messages, TrueTo(m), work[m.job] # "none" PROVE TrueTo(m)'
  <2>1. m.job \in Requests
    BY DEF Messages
  <2>2. CASE work'[m.job] = work[m.job]
    BY <1>1, <2>2 DEF TrueTo
  <2>3. CASE Advances(m.job)
    BY <1>1, <2>3 DEF TrueTo, Advances, LifeOf!LeadsTo, LifeOf!Final, Terminal
  <2> QED
    BY <2>1, <2>2, <2>3, WorkMoves
<1>2. ASSUME NEW h \in Hosts, NEW i \in 1 .. Len(answers[h]), NEW m, m = answers[h][i]
      PROVE  TrueTo(m)'
  <2>0. m \in Messages
    BY <1>2, <1>i DEF TypeOK
  <2>1. TrueTo(m)
    BY <1>2, <1>i DEF TruthOK
  <2>2. work[m.job] # "none"
    BY <1>2, <1>i DEF RunnerInv, MessagesOK, MessageOK
  <2> QED
    BY <1>1, <2>0, <2>1, <2>2
<1>3. CASE Shrunk
  <2> SUFFICES ASSUME NEW h \in Hosts, NEW i \in 1 .. Len(answers'[h]), NEW m, m = answers'[h][i]
               PROVE  TrueTo(m)'
    BY DEF TruthOK, TrueTo
  <2>1. PICK k \in 1 .. Len(answers[h]) : m = answers[h][k]
    BY <1>3 DEF Shrunk
  <2> QED
    BY <1>2, <2>1
<1>4. ASSUME NEW h \in Hosts, NEW m \in Messages, Utters(h, m) PROVE TruthOK'
  <2>1. Speaks(h, m) /\ TrueTo(m)'
    BY <1>4 DEF Utters
  <2> SUFFICES ASSUME NEW g \in Hosts, NEW i \in 1 .. Len(answers'[g]), NEW n, n = answers'[g][i]
               PROVE  TrueTo(n)'
    BY DEF TruthOK, TrueTo
  <2>2. n = m \/ (i \in 1 .. Len(answers[g]) /\ n = answers[g][i])
    BY <2>1, <1>i, Spoken
  <2> QED
    BY <1>2, <2>1, <2>2
<1>5. Shrunk \/ \E h \in Hosts, m \in Messages : Utters(h, m)
  BY <1>i, ShrunkOrUttered
<1> QED
  BY <1>3, <1>4, <1>5

LEMMA ShownStep == LifeInv /\ [Next]_vars => ShownOK'
<1> SUFFICES ASSUME LifeInv, [Next]_vars, NEW j \in Requests
             PROVE  /\ job'[j] = "none" => work'[j] = "none"
                    /\ work'[j] = "none" => job'[j] \in {"none", "queued", "failed", "pruned"}
                    /\ ~Quiet(j)' => Unheard(j)'
                    /\ job'[j] \in {"failed", "timed_out"} => work'[j] \in {"none"} \cup Terminal
                    /\ job'[j] = "pruned" => j \in lost' \/ work'[j] \in {"none"} \cup Over
  BY DEF ShownOK
<1>i. RunnerInv /\ TypeOK /\ RequestOK /\ ShownOK /\ LostOK /\ QueuedOK
  BY DEF LifeInv, RunnerInv
<1>j. /\ job[j] = "none" => work[j] = "none"
      /\ work[j] = "none" => job[j] \in {"none", "queued", "failed", "pruned"}
      /\ ~Quiet(j) => Unheard(j)
      /\ job[j] \in {"failed", "timed_out"} => work[j] \in {"none"} \cup Terminal
      /\ job[j] = "pruned" => j \in lost \/ work[j] \in {"none"} \cup Over
  BY <1>i DEF ShownOK
<1>q. ASSUME work[j] = "none" PROVE Quiet(j)
  BY <1>q, <1>i DEF RunnerInv, MessagesOK, MessageOK, Quiet
<1>k. ASSUME UNCHANGED work, Quiet(j) PROVE Quiet(j)'
  <2>1. ASSUME NEW h \in Hosts, NEW m \in Messages, Utters(h, m) PROVE m.job # j
    BY <1>k, <2>1 DEF Utters, Advances, LifeOf!LeadsTo, LifeOf!Final
  <2> QED
    BY <1>k, <2>1, QuietOrUttered
<1>s. ASSUME NEW h \in Hosts, StreamEnds(h) PROVE UNCHANGED <<job, work>> /\ lost \subseteq lost'
  BY <1>s DEF StreamEnds, runnerVars
<1>1. CASE UNCHANGED <<job, work, wire, answers, lost>>
  BY <1>1, <1>j DEF Quiet, Unheard
<1>2. ASSUME NEW r \in Requests, Proceed(r) \/ Send(r), job'[j] # job[j]
      PROVE  /\ work[j] = "none" /\ UNCHANGED <<work, lost>> /\ job'[j] \in {"queued", "failed"}
  BY <1>2, <1>i DEF Proceed, Send, Recorded, flowVars, RequestOK, TypeOK
<1>3. ASSUME NEW r \in Requests, Proceed(r) \/ Send(r)
      PROVE  UNCHANGED <<work, lost, answers>>
  BY <1>3 DEF Proceed, Send, flowVars
<1>4. CASE \E r \in Requests : Proceed(r) \/ Send(r)
  <2>1. CASE job'[j] = job[j]
    BY <2>1, <1>3, <1>4, <1>j DEF Quiet, Unheard
  <2>2. CASE job'[j] # job[j]
    BY <2>2, <1>2, <1>3, <1>4, <1>q, <1>k
  <2> QED
    BY <2>1, <2>2
<1>5. CASE \E h \in Hosts : StreamEnds(h)
  BY <1>5, <1>s, <1>j, <1>k DEF Unheard
<1>6. ASSUME NEW h \in Hosts, NEW m \in Messages, Utters(h, m)
      PROVE  /\ UNCHANGED <<job, lost>>
             /\ m.job # j => work'[j] = work[j] /\ (Quiet(j) => Quiet(j)')
             /\ m.job = j => Unheard(j) /\ work'[j] # "none"
                             /\ job[j] # "none" /\ job[j] # "pruned"
  <2>1. UNCHANGED <<job, lost>>
    BY <1>6 DEF Utters, Speaks
  <2>2. m.job # j /\ Quiet(j) => Quiet(j)'
    <3>1. Speaks(h, m)
      BY <1>6 DEF Utters
    <3>2. \A g \in Hosts : \A i \in 1 .. Len(answers'[g]) :
             answers'[g][i] = m \/ (i \in 1 .. Len(answers[g]) /\ answers'[g][i] = answers[g][i])
      BY <3>1, <1>i, Spoken
    <3> QED
      BY <3>2 DEF Quiet
  <2>3. m.job = j => Unheard(j) /\ work'[j] # "none"
    BY <1>6 DEF Utters, Advances, LifeOf!LeadsTo, LifeOf!Final
  <2> QED
    BY <1>6, <2>1, <2>2, <2>3 DEF Utters, Unheard
<1>7. CASE \E h \in Hosts, m \in Messages : Utters(h, m)
  <2>1. PICK h \in Hosts, m \in Messages : Utters(h, m)
    BY <1>7
  <2>2. CASE m.job = j
    BY <2>1, <2>2, <1>6 DEF Unheard
  <2>3. CASE m.job # j
    BY <2>1, <2>3, <1>6, <1>j DEF Unheard
  <2> QED
    BY <2>2, <2>3
<1>8. ASSUME NEW h \in Hosts, Handle(h)
      PROVE  /\ job'[j] = "none" => work'[j] = "none"
             /\ work'[j] = "none" => job'[j] \in {"none", "queued", "failed", "pruned"}
             /\ ~Quiet(j)' => Unheard(j)'
             /\ job'[j] \in {"failed", "timed_out"} => work'[j] \in {"none"} \cup Terminal
             /\ job'[j] = "pruned" => j \in lost' \/ work'[j] \in {"none"} \cup Over
  <2>1. PICK m \in Messages : HandlesHead(h, m)
    BY <1>8, Handled
  <2>2. CASE m.job # j \/ m.kind = "ack"
    <3>1. job'[j] = job[j] /\ UNCHANGED <<work, lost>>
      BY <2>1, <2>2 DEF HandlesHead
    <3> QED
      BY <3>1, <1>j, <1>k DEF Unheard
  <2>3. CASE m.job = j /\ m.kind = "event"
    <3>1. job'[j] = m.state /\ UNCHANGED <<work, lost>> /\ work[j] # "none" /\ TrueTo(m)
      BY <2>1, <2>3 DEF HandlesHead, MessageOK
    <3>2. job'[j] \in {"running", "succeeded"}
      BY <2>3, <3>1 DEF TrueTo
    <3> QED
      BY <3>1, <3>2 DEF Unheard
  <2>4. CASE m.job = j /\ m.kind = "result"
    <3>1. job'[j] = m.state /\ UNCHANGED <<work, lost>> /\ work[j] # "none" /\ TrueTo(m)
      BY <2>1, <2>4 DEF HandlesHead, MessageOK
    <3>2. job'[j] = "needs_sudo" \/ (job'[j] \in Terminal /\ work[j] = job'[j])
      BY <2>4, <3>1 DEF TrueTo
    <3>3. Quiet(j)'
      BY <1>8, <1>i, <2>1, <2>4, Remaining DEF HandlesHead
    <3> QED
      BY <3>1, <3>2, <3>3 DEF Terminal
  <2> QED
    BY <2>2, <2>3, <2>4 DEF Messages
<1>9. CASE Prune
  <2>1. UNCHANGED <<work, lost>> /\ job'[j] = IF j \in Prunable THEN "pruned" ELSE job[j]
    BY <1>9, <1>i DEF Prune, flowVars, TypeOK
  <2>2. CASE j \in Prunable
    <3>1. Quiet(j)
      <4>1. \A h \in Hosts : answers[h] \in Seq(Messages) /\ \A m \in Range(answers[h]) : m.job # j
        BY <2>2, <1>i DEF Prunable, Aged, TypeOK
      <4> QED
        BY <4>1 DEF Quiet, Range
    <3>2. j \in lost \/ work[j] \in {"none"} \cup Over
      BY <2>2, <1>i DEF Prunable, Aged, TypeOK, Over
    <3> QED
      BY <2>1, <2>2, <3>1, <3>2, <1>k
  <2>3. CASE j \notin Prunable
    BY <2>1, <2>3, <1>j, <1>k DEF Unheard
  <2> QED
    BY <2>2, <2>3
<1>10. CASE Restart
  <2>1. UNCHANGED work /\ Quiet(j)' /\ job'[j] = IF job[j] = "none" THEN "none" ELSE "pruned"
    BY <1>10, <1>i DEF Restart, Quiet
  <2>2. work[j] \in {"begun", "running", "claimed"} => j \in lost'
    <3> SUFFICES ASSUME work[j] \in {"begun", "running", "claimed"} PROVE j \in lost'
      OBVIOUS
    <3>1. call[j] # NoCall /\ call[j].host \in Hosts
      BY <1>i DEF RunnerInv, DispatchedOK, Dispatched, TypeOK, Calls
    <3>2. j \in CutOff(call[j].host)
      BY <3>1 DEF CutOff, Jobs
    <3> QED
      BY <1>10, <3>1, <3>2 DEF Restart
  <2>3. work[j] \in {"none", "begun", "running", "claimed"} \cup Over
    BY <1>i DEF TypeOK, Over
  <2> QED
    BY <2>1, <2>2, <2>3, <1>j
<1> QED
  BY <1>1, <1>4, <1>5, <1>7, <1>8, <1>9, <1>10, StepKinds

LEMMA LastStep == LifeInv /\ [Next]_vars => LastOK'
<1> SUFFICES ASSUME LifeInv, [Next]_vars, NEW j \in Requests, work'[j] \in Over, ~Quiet(j)'
             PROVE  \E h \in Hosts : \E i \in 1 .. Len(answers'[h]) :
                       answers'[h][i].job = j /\ answers'[h][i].kind = "result"
  BY DEF LastOK, Expected
<1>i. RunnerInv /\ TypeOK /\ LastOK
  BY DEF LifeInv, RunnerInv
<1>a. \A h \in Hosts : answers[h] \in Seq(Messages) /\ Len(answers[h]) \in Nat
  BY <1>i DEF TypeOK
<1>1. ASSUME NEW h \in Hosts, NEW m \in Messages, Utters(h, m), m.job = j
      PROVE  \E i \in 1 .. Len(answers'[h]) :
                answers'[h][i].job = j /\ answers'[h][i].kind = "result"
  <2>1. m.kind = "result" /\ Speaks(h, m)
    BY <1>1 DEF Utters
  <2>2. /\ Len(answers'[h]) \in 1 .. Len(answers'[h]) /\ answers'[h][Len(answers'[h])] = m
    BY <2>1, <1>i, <1>a, Spoken
  <2> QED
    BY <1>1, <2>1, <2>2
<1>2. CASE Quiet(j)
  BY <1>1, <1>2, QuietOrUttered
<1>3. CASE work[j] \notin Over
  <2>1. PICK h \in Hosts, m \in Messages : Utters(h, m) /\ m.job = j
    <3>1. ~UNCHANGED work
      BY <1>3
    <3>2. \E h \in Hosts, m \in Messages : Utters(h, m)
      BY <3>1, StepKinds DEF Proceed, Send, StreamEnds, Handle, Prune, Restart, flowVars
    <3> QED
      BY <1>3, <3>2 DEF Utters
  <2> QED
    BY <1>1, <2>1
<1>4. CASE work[j] \in Over /\ ~Quiet(j)
  <2>0. PICK h \in Hosts : \E i \in 1 .. Len(answers[h]) :
           answers[h][i].job = j /\ answers[h][i].kind = "result"
    BY <1>4, <1>i DEF LastOK, Expected
  <2>1. PICK i \in 1 .. Len(answers[h]) :
           answers[h][i].job = j /\ answers[h][i].kind = "result"
    BY <2>0
  <2>h. call[j].host = h
    BY <2>1, <1>i DEF RunnerInv, MessagesOK, MessageOK
  <2>2. CASE answers'[h] = answers[h]
    BY <2>1, <2>2
  <2>3. ASSUME NEW g \in Hosts, NEW m \in Messages, Utters(g, m)
        PROVE  i \in 1 .. Len(answers'[h]) /\ answers'[h][i] = answers[h][i]
    <3>1. Speaks(g, m)
      BY <2>3 DEF Utters
    <3> QED
      BY <3>1, <1>i, <1>a, Spoken
  <2>4. ASSUME NEW g \in Hosts, Handle(g), answers'[h] # answers[h]
        PROVE  i - 1 \in 1 .. Len(answers'[h]) /\ answers'[h][i - 1] = answers[h][i]
    <3>1. g = h /\ answers'[h] = Tail(answers[h]) /\ answers[h] # <<>>
      BY <2>4, <1>i DEF Handle, TypeOK
    <3>2. i # 1
      <4>1. ASSUME i = 1 PROVE Quiet(j)'
        <5>1. Head(answers[h]) = answers[h][1]
          BY <3>1, <1>a, Get
        <5> QED
          BY <1>i, <2>1, <2>4, <3>1, <4>1, <5>1, Remaining
      <4> QED
        BY <4>1
    <3>3. i - 1 \in 1 .. Len(Tail(answers[h])) /\ (i - 1) + 1 = i
      BY <3>1, <3>2, <1>a, Get
    <3> QED
      BY <3>1, <3>3, <1>a, Get
  <2>5. ASSUME NEW g \in Hosts, StreamEnds(g) PROVE answers'[h] = answers[h]
    <3>1. /\ answers'[g] = <<>> /\ \A f \in Hosts : f # g => answers'[f] = answers[f]
      BY <2>5, <1>i DEF StreamEnds, TypeOK
    <3>2. g # h
      <4>1. ASSUME g = h PROVE Quiet(j)'
        BY <2>h, <3>1, <4>1, <1>i, Elsewhere DEF Quiet
      <4> QED
        BY <4>1
    <3> QED
      BY <3>1, <3>2
  <2>6. ~Restart
    BY DEF Restart, Quiet
  <2>7. CASE \E g \in Hosts : Handle(g)
    BY <2>1, <2>2, <2>4, <2>7
  <2>8. CASE \E g \in Hosts, m \in Messages : Utters(g, m)
    BY <2>1, <2>3, <2>8
  <2> QED
    BY <2>2, <2>5, <2>6, <2>7, <2>8, StepKinds DEF Proceed, Send, Prune, flowVars
<1> QED
  BY <1>2, <1>3, <1>4

LEMMA InitLifeInv == Init => LifeInv
<1> SUFFICES ASSUME Init PROVE LifeInv
  OBVIOUS
<1>1. /\ RunnerInv /\ lost = {} /\ \A r \in Requests : job[r] = "none" /\ work[r] = "none"
      /\ \A h \in Hosts : wire[h] = <<>> /\ answers[h] = <<>>
  BY InitRunnerInv DEF Init
<1>2. /\ \A h \in Hosts : \A i \in 1 .. Len(wire[h]) : FALSE
      /\ \A h \in Hosts : \A i \in 1 .. Len(answers[h]) : FALSE
  BY <1>1
<1>3. \A j \in Requests : Quiet(j)
  BY <1>2 DEF Quiet
<1> QED
  BY <1>1, <1>2, <1>3 DEF LifeInv, QueuedOK, LostOK, TruthOK, ShownOK, LastOK

LEMMA NextLifeInv == LifeInv /\ [Next]_vars => LifeInv'
  BY NextRunnerInv, QueuedStep, LostStep, TruthStep, ShownStep, LastStep DEF LifeInv

-----------------------------------------------------------------------------
\* The steps of a JobLife, in terms of the runner's state.
SameShown(j) == ShownAs(j)' = ShownAs(j)
SameFate(j)  == FateOf(j)' = FateOf(j)
SameWord(j)  == HasLastWord(j)' <=> HasLastWord(j)

Lives(j) ==
    \/ SameShown(j) /\ SameFate(j) /\ SameWord(j)
    \/ /\ ShownAs(j) = "none" /\ FateOf(j) = "none" /\ ShownAs(j)' = "queued"
       /\ SameFate(j) /\ SameWord(j)
    \/ /\ ShownAs(j) = "queued" /\ FateOf(j) = "none" /\ ShownAs(j)' = "failed"
       /\ FateOf(j)' = "dropped" /\ SameWord(j)
    \/ /\ ShownAs(j) = "queued" /\ FateOf(j) = "none" /\ FateOf(j)' \in {"dropped", "begun"}
       /\ SameShown(j) /\ SameWord(j)
    \/ /\ LifeOf!LeadsTo(FateOf(j), FateOf(j)') /\ SameShown(j) /\ SameWord(j)
    \/ /\ ~HasLastWord(j) /\ SameFate(j) /\ SameWord(j)
       /\ \/ /\ ShownAs(j) = "queued" /\ FateOf(j) \in {"running", "claimed"} \cup Terminal
             /\ ShownAs(j)' = "running"
          \/ /\ ShownAs(j) \in {"queued", "running"} /\ ShownAs(j)' = "succeeded"
             /\ FateOf(j) \in {"claimed", "succeeded", "failed"}
    \/ /\ ~HasLastWord(j) /\ HasLastWord(j)' /\ SameFate(j)
       /\ ShownAs(j) \in {"queued", "running", "succeeded"}
       /\ FateOf(j) \in {"paused"} \cup Terminal /\ ShownAs(j)' = FateOf(j)
    \/ ShownAs(j) \in Terminal /\ ShownAs(j)' = "forgotten" /\ SameFate(j) /\ SameWord(j)

LEMMA LivesIsStep ==
    ASSUME NEW j \in Requests, Lives(j)
    PROVE  LifeOf!Step(j)
<1> USE DEF LifeOf!Shows, LifeOf!Becomes, LifeOf!SameShown, LifeOf!SameFate, LifeOf!SameHeard,
            SameShown, SameFate, SameWord
<1>f. LifeOf!Final = Terminal /\ "forgotten" \notin Terminal
  BY DEF LifeOf!Final, Terminal
<1>1. CASE SameShown(j) /\ SameFate(j) /\ SameWord(j)
  BY <1>1 DEF LifeOf!Step, LifeOf!Idle
<1>2. CASE /\ ShownAs(j) = "none" /\ FateOf(j) = "none" /\ ShownAs(j)' = "queued"
           /\ SameFate(j) /\ SameWord(j)
  BY <1>2 DEF LifeOf!Step, LifeOf!Submit
<1>3. CASE /\ ShownAs(j) = "queued" /\ FateOf(j) = "none" /\ ShownAs(j)' = "failed"
           /\ FateOf(j)' = "dropped" /\ SameWord(j)
  BY <1>3 DEF LifeOf!Step, LifeOf!Refuse
<1>4. CASE /\ ShownAs(j) = "queued" /\ FateOf(j) = "none" /\ FateOf(j)' \in {"dropped", "begun"}
           /\ SameShown(j) /\ SameWord(j)
  BY <1>4 DEF LifeOf!Step, LifeOf!Drop, LifeOf!Accept
<1>5. CASE /\ LifeOf!LeadsTo(FateOf(j), FateOf(j)')
           /\ SameShown(j) /\ SameWord(j)
  BY <1>5 DEF LifeOf!Step, LifeOf!Work
<1>6. CASE /\ ~HasLastWord(j) /\ SameFate(j) /\ SameWord(j)
           /\ \/ /\ ShownAs(j) = "queued" /\ FateOf(j) \in {"running", "claimed"} \cup Terminal
                 /\ ShownAs(j)' = "running"
              \/ /\ ShownAs(j) \in {"queued", "running"} /\ ShownAs(j)' = "succeeded"
                 /\ FateOf(j) \in {"claimed", "succeeded", "failed"}
  BY <1>6, <1>f DEF LifeOf!Step, LifeOf!Progress
<1>7. CASE /\ ~HasLastWord(j) /\ HasLastWord(j)' /\ SameFate(j)
           /\ ShownAs(j) \in {"queued", "running", "succeeded"}
           /\ FateOf(j) \in {"paused"} \cup Terminal /\ ShownAs(j)' = FateOf(j)
  BY <1>7, <1>f DEF LifeOf!Step, LifeOf!Hear
<1>8. CASE ShownAs(j) \in Terminal /\ ShownAs(j)' = "forgotten" /\ SameFate(j) /\ SameWord(j)
  BY <1>8, <1>f DEF LifeOf!Step, LifeOf!Forget
<1> QED
  BY <1>1, <1>2, <1>3, <1>4, <1>5, <1>6, <1>7, <1>8 DEF Lives

\* The last word is given once, by a result that is handled.
LEMMA LastWordStays ==
    ASSUME LifeInv, [Next]_vars, NEW j \in Requests, HasLastWord(j)
    PROVE  HasLastWord(j)'
<1>i. RunnerInv /\ TypeOK
  BY DEF LifeInv, RunnerInv
<1>1. work[j] \in Over /\ j \notin lost /\ Quiet(j)
  BY <1>i, LastWordIs
<1>2. work'[j] \in Over /\ Quiet(j)'
  BY <1>1, <1>i, KeptStep, StaysQuiet DEF Kept
<1>3. \A h \in Hosts : j \notin CutOff(h)
  BY <1>1, <1>i, CutOffIs DEF Over, Terminal
<1>4. j \notin lost'
  BY <1>1, <1>3, StepKinds DEF Proceed, Send, Utters, Handle, Prune, Restart, StreamEnds, flowVars
<1> QED
  BY <1>i, <1>2, <1>4, TypeStep, NextLastWordIs

LEMMA LastWordGiven ==
    ASSUME LifeInv, [Next]_vars, NEW j \in Requests, ~HasLastWord(j), HasLastWord(j)'
    PROVE  \E h \in Hosts, m \in Messages :
              HandlesHead(h, m) /\ m.job = j /\ m.kind = "result"
<1>i. RunnerInv /\ TypeOK /\ LastOK
  BY DEF LifeInv, RunnerInv
<1>1. work'[j] \in Over /\ j \notin lost' /\ Quiet(j)'
  BY <1>i, TypeStep, NextLastWordIs
<1>2. lost \subseteq lost'
  BY StepKinds DEF Proceed, Send, Utters, Handle, Prune, Restart, StreamEnds, flowVars
<1>3. work[j] \notin Over \/ ~Quiet(j)
  BY <1>1, <1>2, <1>i, LastWordIs
\* Work that ends now has its result on the way.
<1>4. ASSUME NEW h \in Hosts, NEW m \in Messages, Utters(h, m) PROVE m.job # j
  <2>1. Speaks(h, m)
    BY <1>4 DEF Utters
  <2>2. ~Quiet(m.job)'
    <3>1. /\ Len(answers[h]) + 1 \in 1 .. Len(answers'[h])
          /\ answers'[h][Len(answers[h]) + 1] = m
      BY <2>1, <1>i, Spoken
    <3> QED
      BY <3>1 DEF Quiet
  <2> QED
    BY <1>1, <2>2
<1>5. work[j] \in Over
  BY <1>1, <1>4, StepKinds DEF Utters, Proceed, Send, Handle, Prune, Restart, StreamEnds, flowVars
<1>6. PICK h \in Hosts : \E i \in 1 .. Len(answers[h]) :
         answers[h][i].job = j /\ answers[h][i].kind = "result"
  BY <1>3, <1>5, <1>i DEF LastOK, Expected
<1>7. PICK i \in 1 .. Len(answers[h]) : answers[h][i].job = j /\ answers[h][i].kind = "result"
  BY <1>6
<1>8. answers[h] \in Seq(Messages) /\ Len(answers[h]) \in Nat
  BY <1>i DEF TypeOK
<1>9. answers'[h] # answers[h]
  BY <1>1, <1>7 DEF Quiet
<1>10. ASSUME NEW g \in Hosts, StreamEnds(g) \/ Restart PROVE FALSE
  <2>1. j \in CutOff(h)
    <3>1. answers[h][i] \in Range(answers[h])
      BY <1>7, <1>8 DEF Range
    <3> QED
      BY <1>7, <3>1 DEF CutOff
  <2>2. ~Restart
    BY <1>1, <2>1 DEF Restart
  <2>3. g = h
    BY <1>9, <1>10, <2>2, <1>i DEF StreamEnds, TypeOK
  <2> QED
    BY <1>1, <1>10, <2>1, <2>2, <2>3 DEF StreamEnds
<1>11. ASSUME NEW g \in Hosts, NEW m \in Messages, Utters(g, m) PROVE FALSE
  <2>1. Speaks(g, m)
    BY <1>11 DEF Utters
  <2>2. i \in 1 .. Len(answers'[h]) /\ answers'[h][i] = answers[h][i]
    BY <2>1, <1>7, <1>8, <1>i, Spoken
  <2> QED
    BY <1>1, <1>7, <2>2 DEF Quiet
<1>12. Handle(h)
  <2>1. \E g \in Hosts : Handle(g)
    BY <1>9, <1>10, <1>11, StepKinds DEF Proceed, Send, Prune, flowVars
  <2>2. PICK g \in Hosts : Handle(g)
    BY <2>1
  <2>3. g = h
    BY <1>9, <2>2, <1>i DEF Handle, TypeOK
  <2> QED
    BY <2>2, <2>3
<1>13. PICK m \in Messages : HandlesHead(h, m)
  BY <1>12, Handled
<1>14. answers'[h] = Tail(answers[h]) /\ answers[h] # <<>> /\ m = answers[h][1]
  BY <1>12, <1>13, <1>8, <1>i, Get DEF HandlesHead, Handle, TypeOK
\* The result was the oldest message: otherwise it would still be there.
<1>15. i = 1
  <2>1. ASSUME i # 1 PROVE i - 1 \in 1 .. Len(answers'[h]) /\ answers'[h][i - 1] = answers[h][i]
    <3>1. i - 1 \in 1 .. Len(Tail(answers[h])) /\ (i - 1) + 1 = i
      BY <1>8, <1>14, <2>1, Get
    <3> QED
      BY <1>8, <1>14, <3>1, Get
  <2> QED
    BY <1>1, <1>7, <2>1 DEF Quiet
<1> QED
  BY <1>7, <1>13, <1>14, <1>15

\* What a step leaves of a job is shown as it was.
LEMMA Unmoved ==
    ASSUME LifeInv, [Next]_vars, NEW j \in Requests, job'[j] = job[j], work'[j] = work[j],
           j \in lost' => j \in lost \/ work[j] # "none",
           \A h \in Hosts, m \in Messages : HandlesHead(h, m) /\ m.job = j => m.kind # "result"
    PROVE  Lives(j)
<1>1. lost \subseteq lost'
  BY StepKinds DEF Proceed, Send, Utters, Handle, Prune, Restart, StreamEnds, flowVars
<1>2. SameShown(j) /\ SameFate(j)
  BY <1>1 DEF SameShown, ShownAs, SameFate, FateOf, Dropped
<1>3. SameWord(j)
  BY LastWordStays, LastWordGiven DEF SameWord
<1> QED
  BY <1>2, <1>3 DEF Lives

\* The last word is not given by a step that handles no message.
LEMMA NoWord ==
    ASSUME LifeInv, [Next]_vars, NEW j \in Requests,
           \A h \in Hosts, m \in Messages : HandlesHead(h, m) /\ m.job = j => m.kind # "result"
    PROVE  SameWord(j)
  BY LastWordStays, LastWordGiven DEF SameWord

LEMMA LivesStep ==
    ASSUME LifeInv, [Next]_vars, ~Restart, NEW j \in Requests
    PROVE  Lives(j)
<1>i. RunnerInv /\ TypeOK /\ RequestOK /\ QueuedOK /\ LostOK /\ ShownOK
  BY DEF LifeInv, RunnerInv
<1>j. /\ job[j] = "none" => work[j] = "none"
      /\ work[j] = "none" => job[j] \in {"none", "queued", "failed", "pruned"}
  BY <1>i DEF ShownOK
<1>q. ASSUME job[j] = "queued", j \notin lost PROVE ShownAs(j) = "queued" /\ FateOf(j) = work[j]
  BY <1>q DEF ShownAs, FateOf, Dropped
<1>1. CASE UNCHANGED <<job, work, wire, answers, lost>>
  <2>1. ASSUME NEW h \in Hosts, Handle(h) PROVE FALSE
    BY <1>1, <2>1, <1>i, Get DEF Handle, TypeOK
  <2> QED
    BY <1>1, <2>1, Unmoved DEF HandlesHead
<1>2. ASSUME NEW r \in Requests, Proceed(r) PROVE Lives(j)
  <2>1. UNCHANGED <<work, lost, answers>>
    BY <1>2 DEF Proceed, flowVars
  <2>2. ASSUME NEW h \in Hosts, Handle(h) PROVE FALSE
    BY <2>1, <2>2, <1>i, Get DEF Handle, TypeOK
  <2>3. CASE job'[j] = job[j]
    BY <2>1, <2>2, <2>3, Unmoved DEF HandlesHead
  <2>4. CASE job'[j] # job[j]
    <3>1. j = r /\ pc[j] = "read" /\ job'[j] = "queued" /\ job[j] = "none" /\ work[j] = "none"
      BY <1>2, <2>4, <1>i DEF Proceed, RequestOK, TypeOK
    <3>2. j \notin lost
      BY <3>1, <1>i DEF LostOK
    <3>3. SameWord(j)
      BY <2>2, NoWord DEF HandlesHead
    <3>4. /\ ShownAs(j) = "none" /\ FateOf(j) = "none" /\ ShownAs(j)' = "queued" /\ SameFate(j)
      BY <2>1, <3>1, <3>2 DEF ShownAs, FateOf, Dropped, SameFate
    <3> QED
      BY <3>3, <3>4 DEF Lives
  <2> QED
    BY <2>3, <2>4
<1>3. ASSUME NEW r \in Requests, Send(r) PROVE Lives(j)
  <2>1. UNCHANGED <<work, lost, answers>>
    BY <1>3 DEF Send
  <2>2. ASSUME NEW h \in Hosts, Handle(h) PROVE FALSE
    BY <2>1, <2>2, <1>i, Get DEF Handle, TypeOK
  <2>3. CASE job'[j] = job[j]
    BY <2>1, <2>2, <2>3, Unmoved DEF HandlesHead
  <2>4. CASE job'[j] # job[j]
    <3>1. j = r /\ pc[j] = "created" /\ job'[j] = "failed" /\ job[j] = "queued" /\ work[j] = "none"
      BY <1>3, <2>4, <1>i DEF Send, Recorded, RequestOK, TypeOK
    <3>2. j \notin lost
      BY <3>1, <1>i DEF LostOK
    <3>3. SameWord(j)
      BY <2>2, NoWord DEF HandlesHead
    <3>4. ShownAs(j)' = "failed" /\ FateOf(j)' = "dropped"
      BY <2>1, <3>1 DEF ShownAs, FateOf, Dropped
    <3> QED
      BY <1>q, <3>1, <3>2, <3>3, <3>4 DEF Lives
  <2> QED
    BY <2>3, <2>4
<1>4. ASSUME NEW h \in Hosts, NEW m \in Messages, Utters(h, m) PROVE Lives(j)
  <2>1. UNCHANGED <<job, lost>> /\ Speaks(h, m)
    BY <1>4 DEF Utters, Speaks
  <2>2. ASSUME NEW g \in Hosts, Handle(g) PROVE FALSE
    <3>1. Len(answers'[h]) = Len(answers[h]) + 1 /\ Len(answers[h]) \in Nat
          /\ \A f \in Hosts : f # h => answers'[f] = answers[f]
      BY <2>1, <1>i, Spoken
    <3>2. Len(answers'[g]) = Len(answers[g]) - 1 /\ Len(answers[g]) \in Nat
      BY <2>2, <1>i, Get DEF Handle, TypeOK
    <3> QED
      BY <3>1, <3>2
  <2>3. CASE m.job # j
    BY <1>4, <2>1, <2>2, <2>3, Unmoved DEF Utters, HandlesHead
  <2>4. CASE m.job = j
    <3>1. j \notin lost /\ Unheard(j) /\ Advances(j)
      BY <1>4, <2>4 DEF Utters
    <3>2. SameWord(j)
      BY <2>2, NoWord DEF HandlesHead
    <3>3. SameShown(j) /\ FateOf(j) = work[j] /\ FateOf(j)' = work'[j]
      BY <2>1, <3>1 DEF SameShown, ShownAs, FateOf, Dropped, Unheard
    <3>4. CASE work[j] = "none" /\ work'[j] = "begun" /\ job[j] = "queued"
      BY <1>q, <3>1, <3>2, <3>3, <3>4 DEF Lives
    <3>5. CASE work[j] \in {"begun", "running", "claimed"} /\ LifeOf!LeadsTo(work[j], work'[j])
      <4>1. work'[j] # work[j]
        BY <3>5 DEF LifeOf!LeadsTo, LifeOf!Final
      <4> QED
        BY <3>2, <3>3, <3>5, <4>1 DEF Lives
    <3> QED
      BY <3>1, <3>4, <3>5 DEF Advances
  <2> QED
    BY <2>3, <2>4
<1>5. ASSUME NEW h \in Hosts, StreamEnds(h) PROVE Lives(j)
  <2>1. UNCHANGED <<job, work>> /\ lost' = lost \cup CutOff(h)
    BY <1>5 DEF StreamEnds, runnerVars
  <2>2. ASSUME NEW g \in Hosts, Handle(g) PROVE FALSE
    BY <1>5, <2>2 DEF StreamEnds, Handle, linkVars, RunnerAssumption, TypeOK
  <2>3. CASE j \in lost' => j \in lost \/ work[j] # "none"
    BY <2>1, <2>2, <2>3, Unmoved DEF HandlesHead
  <2>4. CASE j \in lost' /\ j \notin lost /\ work[j] = "none"
    <3>1. job[j] = "queued"
      <4>1. j \in CutOff(h)
        BY <2>1, <2>4
      <4>2. ~Quiet(j) \/ \E i \in 1 .. Len(wire[h]) : wire[h][i] = j
        BY <2>4, <4>1, <1>i, CutOffIs
      <4>3. Quiet(j)
        BY <2>4, <1>i DEF RunnerInv, MessagesOK, MessageOK, Quiet
      <4> QED
        BY <4>2, <4>3, <1>i DEF QueuedOK
    <3>2. SameWord(j)
      BY <2>2, NoWord DEF HandlesHead
    <3>3. SameShown(j) /\ FateOf(j)' = "dropped"
      BY <2>1, <2>4 DEF SameShown, ShownAs, FateOf, Dropped
    <3> QED
      BY <1>q, <2>4, <3>1, <3>2, <3>3 DEF Lives
  <2> QED
    BY <2>3, <2>4
<1>6. ASSUME NEW h \in Hosts, Handle(h) PROVE Lives(j)
  <2>1. PICK m \in Messages : HandlesHead(h, m)
    BY <1>6, Handled
  <2>2. /\ UNCHANGED <<work, lost>> /\ Unheard(m.job) /\ TrueTo(m) /\ work[m.job] # "none"
        /\ job'[m.job] = IF m.kind = "ack" THEN job[m.job] ELSE m.state
        /\ \A q \in Requests : q # m.job => job'[q] = job[q]
    BY <2>1 DEF HandlesHead, MessageOK
  <2>3. ASSUME NEW g \in Hosts, NEW n \in Messages, HandlesHead(g, n) PROVE n = m
    <3>1. g = h
      <4>1. answers'[h] = Tail(answers[h]) /\ answers[h] # <<>>
        BY <1>6, <1>i DEF Handle, TypeOK
      <4>2. answers'[h] # answers[h]
        BY <4>1, <1>i, Get DEF TypeOK
      <4> QED
        BY <2>3, <4>2, <1>i DEF HandlesHead, Handle, TypeOK
    <3> QED
      BY <2>1, <2>3, <3>1 DEF HandlesHead
  <2>4. CASE m.job # j
    BY <2>2, <2>3, <2>4, Unmoved
  <2>5. CASE m.job = j /\ m.kind # "result"
    <3>1. SameWord(j)
      BY <2>3, <2>5, NoWord
    <3>2. SameFate(j) /\ FateOf(j) = work[j]
      <4>1. work[j] # "none" /\ work'[j] # "none"
        BY <2>2, <2>5
      <4> QED
        BY <2>2, <4>1 DEF SameFate, FateOf, Dropped
    <3>3. CASE job'[j] = job[j]
      BY <2>2, <2>3, <2>5, <3>3, Unmoved
    <3>4. CASE job'[j] # job[j]
      <4>1. m.kind = "event" /\ job'[j] = m.state
        BY <2>2, <2>5, <3>4 DEF Messages
      <4>2. ~HasLastWord(j)
        <5>1. ~Quiet(j)
          BY <1>6, <2>1, <2>5, <1>i, AnswerHead DEF HandlesHead, Handle
        <5> QED
          BY <5>1, <1>i, LastWordIs
      <4>3. ASSUME m.state = "succeeded", job[j] \in {"queued", "running"} PROVE Lives(j)
        <5>1. ShownAs(j) \in {"queued", "running"} /\ ShownAs(j)' = "succeeded"
          BY <4>1, <4>3 DEF ShownAs
        <5>2. FateOf(j) \in {"claimed", "succeeded", "failed"}
          BY <2>2, <2>5, <3>2, <4>1, <4>3 DEF TrueTo
        <5> QED
          BY <3>1, <3>2, <4>2, <5>1, <5>2 DEF Lives
      <4>4. ASSUME m.state = "running", job[j] = "queued" PROVE Lives(j)
        <5>1. ShownAs(j) = "queued" /\ ShownAs(j)' = "running"
          BY <4>1, <4>4 DEF ShownAs
        <5>2. FateOf(j) \in {"running", "claimed"} \cup Terminal
          BY <2>2, <2>5, <3>2, <4>1, <4>4 DEF TrueTo
        <5> QED
          BY <3>1, <3>2, <4>2, <5>1, <5>2 DEF Lives
      <4>5. m.state = "running" => job[j] \notin Terminal
        <5>1. answers[h] \in Seq(Messages) /\ answers[h] # <<>>
          BY <1>6, <1>i DEF Handle, TypeOK
        <5>2. 1 \in 1 .. Len(answers[h]) /\ m = answers[h][1]
          BY <2>1, <5>1, Get DEF HandlesHead
        <5> QED
          BY <2>5, <4>1, <5>2, <1>i DEF RunnerInv, JobOK, Terminal
      <4>6. m.state \in {"running", "succeeded"}
        BY <2>2, <4>1 DEF TrueTo
      <4> QED
        BY <2>2, <2>5, <3>4, <4>1, <4>3, <4>4, <4>5, <4>6 DEF Unheard, Terminal
    <3> QED
      BY <3>3, <3>4
  <2>6. CASE m.job = j /\ m.kind = "result"
    <3>1. Quiet(j)' /\ ~Quiet(j)
      BY <1>6, <2>1, <2>6, <1>i, Remaining, AnswerHead DEF HandlesHead, Handle
    <3>2. /\ job'[j] = m.state
          /\ (m.state = "needs_sudo" /\ work[j] = "paused") \/ (m.state \in Terminal /\ work[j] = m.state)
      BY <2>2, <2>6 DEF TrueTo
    <3>3. work'[j] \in Over /\ work[j] # "none" /\ work'[j] = work[j]
      BY <2>2, <3>2 DEF Over, Terminal
    <3>4. j \notin lost'
      BY <2>2, <3>1, <1>i DEF LostOK
    <3>5. ~HasLastWord(j) /\ HasLastWord(j)'
      BY <1>i, <3>1, <3>3, <3>4, TypeStep, LastWordIs, NextLastWordIs
    <3>6. SameFate(j) /\ FateOf(j) = work[j]
      BY <3>3 DEF SameFate, FateOf, Dropped
    <3>7. ShownAs(j) \in {"queued", "running", "succeeded"}
      BY <2>2, <2>6 DEF Unheard, ShownAs
    <3>8. work[j] \in {"paused"} \cup Terminal /\ ShownAs(j)' = work[j]
      BY <3>2 DEF ShownAs, Terminal
    <3> QED
      BY <3>5, <3>6, <3>7, <3>8 DEF Lives
  <2> QED
    BY <2>4, <2>5, <2>6
<1>7. CASE Prune
  <2>1. UNCHANGED <<work, lost, answers>> /\ job'[j] = IF j \in Prunable THEN "pruned" ELSE job[j]
    BY <1>7, <1>i DEF Prune, flowVars, TypeOK
  <2>2. ASSUME NEW h \in Hosts, Handle(h) PROVE FALSE
    BY <2>1, <2>2, <1>i, Get DEF Handle, TypeOK
  <2>3. CASE j \notin Prunable
    BY <2>1, <2>2, <2>3, Unmoved DEF HandlesHead
  <2>4. CASE j \in Prunable
    <3>1. job[j] \in Terminal /\ job'[j] = "pruned"
      BY <2>1, <2>4 DEF Prunable
    <3>2. ShownAs(j) \in Terminal /\ ShownAs(j)' = "forgotten"
      BY <3>1 DEF ShownAs, Terminal
    <3>3. SameFate(j)
      BY <1>j, <2>1, <3>1 DEF SameFate, FateOf, Dropped, Terminal
    <3>4. SameWord(j)
      BY <2>2, NoWord DEF HandlesHead
    <3> QED
      BY <3>2, <3>3, <3>4 DEF Lives
  <2> QED
    BY <2>3, <2>4
<1> QED
  BY <1>1, <1>2, <1>3, <1>4, <1>5, <1>6, <1>7, StepKinds

\* A restart forgets every job, and drops what no host has begun.
LEMMA RestartIsCrash ==
    ASSUME LifeInv, [Next]_vars, Restart
    PROVE  LifeOf!Crash
<1> SUFFICES ASSUME NEW j \in Requests
             PROVE  /\ ShownAs(j)' = IF ShownAs(j) = "none" THEN "none" ELSE "forgotten"
                    /\ FateOf(j)' = IF ShownAs(j) # "none" /\ FateOf(j) = "none"
                                    THEN "dropped" ELSE FateOf(j)
                    /\ SameWord(j)
  BY DEF LifeOf!Crash, LifeOf!SameHeard, SameWord
<1>i. RunnerInv /\ TypeOK /\ RequestOK /\ QueuedOK /\ LostOK /\ ShownOK
  BY DEF LifeInv, RunnerInv
<1>1. UNCHANGED work /\ job'[j] = IF job[j] = "none" THEN "none" ELSE "pruned"
  BY <1>i DEF Restart, TypeOK
<1>2. ShownAs(j)' = IF ShownAs(j) = "none" THEN "none" ELSE "forgotten"
  BY <1>1 DEF ShownAs
<1>3. ShownAs(j) = "none" <=> job[j] = "none"
  BY DEF ShownAs
<1>4. SameWord(j)
  <2>1. ASSUME NEW h \in Hosts, Handle(h) PROVE FALSE
    BY <2>1, <1>i DEF Restart, Handle, linkVars, TypeOK
  <2> QED
    BY <2>1, NoWord DEF HandlesHead
<1>5. lost \subseteq lost'
  BY DEF Restart
<1>6. CASE job[j] = "none"
  <2>1. j \notin lost'
    BY <1>1, <1>6, LostStep DEF LostOK
  <2>2. FateOf(j)' = FateOf(j)
    BY <1>1, <1>5, <1>6, <2>1 DEF FateOf, Dropped
  <2> QED
    BY <1>2, <1>3, <1>4, <1>6, <2>2
<1>7. CASE job[j] # "none"
  <2>1. FateOf(j)' = IF work[j] = "none" THEN "dropped" ELSE work[j]
    BY <1>1, <1>7 DEF FateOf, Dropped
  <2>2. FateOf(j) = "none" => work[j] = "none"
    BY DEF FateOf
  <2>3. work[j] = "none" => FateOf(j) \in {"none", "dropped"}
    BY DEF FateOf
  <2>4. work[j] # "none" => FateOf(j) = work[j]
    BY DEF FateOf, Dropped
  <2> QED
    BY <1>2, <1>3, <1>4, <1>7, <2>1, <2>2, <2>3, <2>4
<1> QED
  BY <1>6, <1>7

\* Whatever requests, queues, streams, restarts and pruning do, each job lives a JobLife:
\* it is shown in order and never ahead of its host, it ends on the host's last word, and
\* one that was refused or lost never happens.
THEOREM JobsLive == Spec => ImplementsJobLife
<1>1. Init => LifeOf!Init
  <2> SUFFICES ASSUME Init PROVE LifeOf!Init
    OBVIOUS
  <2>1. \A j \in Requests : job[j] = "none" /\ work[j] = "none" /\ j \notin lost
    BY DEF Init
  <2>2. \A j \in Requests : ShownAs(j) = "none" /\ FateOf(j) = "none" /\ ~HasLastWord(j)
    BY <2>1 DEF ShownAs, FateOf, Dropped, HasLastWord, Terminal
  <2> QED
    BY <2>2 DEF LifeOf!Init
<1>2. LifeInv /\ [Next]_vars => [LifeOf!Next]_(LifeOf!vars)
  <2> SUFFICES ASSUME LifeInv, [Next]_vars PROVE LifeOf!Next
    OBVIOUS
  <2>1. CASE Restart
    BY <2>1, RestartIsCrash DEF LifeOf!Next
  <2>2. CASE ~Restart
    BY <2>2, LivesStep, LivesIsStep DEF LifeOf!Next
  <2> QED
    BY <2>1, <2>2
<1> QED
  BY <1>1, <1>2, InitLifeInv, NextLifeInv, PTL DEF Spec, ImplementsJobLife, LifeOf!Spec
=============================================================================
