-------------------------- MODULE ArtifactChainProofs --------------------------
(* Theorems about ArtifactChain, for every number of runtimes, generations,  *)
(* claims and items.  A history only grows, and all that was checked when a  *)
(* generation was committed is about what lies below it; so it stays true.   *)
EXTENDS ArtifactChain, SequenceTheorems, TLAPS

FieldsOfCall == {"pc", "task", "on", "deps", "base"}

Shaped ==
    /\ history \in Seq({history[g] : g \in DOMAIN history})
    /\ DOMAIN job = Runner
    /\ \A r \in Runner : DOMAIN job[r] = FieldsOfCall

\* What a call names is there, and the dependencies of a draft are those of its
\* sources.
WellCalled(task, on, deps) ==
    /\ task = "challenge" => on.parse \in Made("parse")
    /\ task = "claims" =>
           /\ on.parse \in Made("parse") /\ on.challenge \in Made("challenge")
           /\ OneChain(on.parse, on.challenge)
    /\ task \in Draft => DOMAIN deps = on
    /\ task \in Audit =>
           on.draft \in Made(AuditedKind[task]) /\ on.ref \in DOMAIN history[on.draft].out

\* What was checked of an audit before it was committed.
WellAudited(task, on, deps) ==
    /\ task \in Audit => history[on.draft].deps = deps
    /\ task = "audit_proposition" => PropositionContext(on) /\ AuthorizedCitations(on)
    /\ task = "audit_sentence" => SentenceContext(on) /\ AuditedSources(on)

\* What was checked of e before it became generation g.
Committed(e, g) ==
    /\ e.source = g - 1
    /\ WellCalled(e.task, e.on, e.deps)
    /\ WellAudited(e.task, e.on, e.deps)
    /\ e.task = "claims" => e.on.challenge = g - 1 /\ DisposedOf(e.on, e.out)
    /\ e.task \in Draft => DraftOf(e.task, e.out, e.on)
    /\ e.task \in Audit => e.on.draft < g

History == \A g \in DOMAIN history : Committed(history[g], g)

Calls ==
    \A r \in Runner : job[r].pc # "idle" =>
        /\ job[r].task \in Discovery \cup Draft \cup Audit
        /\ WellCalled(job[r].task, job[r].on, job[r].deps)
        /\ job[r].pc = "working" /\ job[r].task = "claims" =>
               job[r].base = job[r].on.challenge

\* No two audits have the identity that the code looks up.
IdentitiesDiffer ==
    \A task \in Audit : \A g, h \in Made(task) : Identity(g) = Identity(h) => g = h

IInv == Shaped /\ History /\ Calls /\ IdentitiesDiffer

-------------------------------------------------------------------------------
(* A history that grows                                                      *)

LEMMA Kinds ==
    /\ Audit = {"audit_proposition", "audit_sentence"}
    /\ Draft = {"propositions", "render"}
    /\ AuditedKind["audit_proposition"] = "propositions"
    /\ AuditedKind["audit_sentence"] = "render"
  BY DEF Audit, Draft, AuditedKind

LEMMA SequenceOfItsElements ==
    ASSUME NEW T, NEW t \in Seq(T)
    PROVE  t \in Seq({t[i] : i \in DOMAIN t})
<1>1. Len(t) \in Nat /\ DOMAIN t = 1..Len(t) /\ t \in [1..Len(t) -> T]
  OBVIOUS
<1>2. t \in [1..Len(t) -> {t[i] : i \in DOMAIN t}]
  BY <1>1
<1> QED
  BY <1>1, <1>2, SeqDef

\* Nothing that was committed is changed or taken away.
Kept == \A g \in DOMAIN history : g \in DOMAIN history' /\ history'[g] = history[g]

LEMMA Appending ==
    ASSUME Shaped, NEW e, history' = Append(history, e)
    PROVE  /\ Kept
           /\ Current \in Nat /\ DOMAIN history = 1..Current
           /\ DOMAIN history' = 1..(Current + 1)
           /\ history'[Current + 1] = e
           /\ (history \in Seq({history[g] : g \in DOMAIN history}))'
<1>1. PICK T : history \in Seq(T) /\ e \in T
  <2>1. history \in Seq({history[g] : g \in DOMAIN history} \cup {e})
    BY SeqMonotonic DEF Shaped
  <2> QED
    BY <2>1
<1>2. /\ Append(history, e) \in Seq(T)
      /\ Len(Append(history, e)) = Len(history) + 1
      /\ \A i \in 1..Len(history) : Append(history, e)[i] = history[i]
      /\ Append(history, e)[Len(history) + 1] = e
  BY <1>1, AppendProperties
<1>3. /\ Len(history) \in Nat /\ DOMAIN history = 1..Len(history)
      /\ DOMAIN history' = 1..(Len(history) + 1)
  BY <1>1, <1>2
<1>4. history' \in Seq({history'[g] : g \in DOMAIN history'})
  BY <1>2, SequenceOfItsElements
<1> QED
  BY <1>2, <1>3, <1>4 DEF Kept, Current

LEMMA MadeKept ==
    ASSUME Kept
    PROVE  /\ \A task : Made(task) \subseteq Made(task)'
           /\ Passing \subseteq Passing'
  BY DEF Kept, Made, Passing

LEMMA CallsKept ==
    ASSUME Kept, NEW task, NEW on, NEW deps, WellCalled(task, on, deps)
    PROVE  WellCalled(task, on, deps)'
<1>1. \A t : \A g \in Made(t) : g \in Made(t)' /\ history'[g] = history[g]
  BY DEF Kept, Made
<1>2. task = "claims" => OneChain(on.parse, on.challenge)'
  BY <1>1 DEF WellCalled, OneChain
<1>3. task \in Audit =>
          /\ on.draft \in Made(AuditedKind[task])'
          /\ on.ref \in DOMAIN history'[on.draft].out
  BY <1>1 DEF WellCalled
<1> QED
  BY <1>1, <1>2, <1>3 DEF WellCalled

LEMMA AuditsKept ==
    ASSUME Kept, NEW task, NEW on, NEW deps,
           WellCalled(task, on, deps), WellAudited(task, on, deps)
    PROVE  WellAudited(task, on, deps)'
<1>1. /\ \A t : Made(t) \subseteq Made(t)'
      /\ Passing \subseteq Passing'
  BY MadeKept
<1>2. task \in Audit =>
          /\ on.draft \in DOMAIN history
          /\ on.draft \in DOMAIN history'
          /\ history'[on.draft] = history[on.draft]
  BY DEF WellCalled, Made, Kept
<1>3. CASE task = "audit_proposition"
  BY <1>1, <1>2, <1>3, Kinds DEF WellAudited, PropositionContext, AuthorizedCitations,
     LoadedDraft, ExactDraft, Target
<1>4. CASE task = "audit_sentence"
  BY <1>1, <1>2, <1>4, Kinds DEF WellAudited, SentenceContext, AuditedSources,
     LoadedDraft, ExactDraft, Target
<1>5. CASE task \notin Audit
  BY <1>5, Kinds DEF WellAudited
<1> QED
  BY <1>3, <1>4, <1>5, Kinds

LEMMA CommitsKept ==
    ASSUME Kept, NEW e, NEW g, Committed(e, g)
    PROVE  Committed(e, g)'
<1>1. /\ WellCalled(e.task, e.on, e.deps)'
      /\ WellAudited(e.task, e.on, e.deps)'
  BY CallsKept, AuditsKept DEF Committed
<1>2. e.task = "claims" => DisposedOf(e.on, e.out)'
  <2>1. SUFFICES ASSUME e.task = "claims"
                 PROVE  DisposedOf(e.on, e.out)'
    OBVIOUS
  <2>2. /\ history'[e.on.parse] = history[e.on.parse]
        /\ history'[e.on.challenge] = history[e.on.challenge]
    BY <2>1 DEF Committed, WellCalled, Made, Kept
  <2>3. /\ ParseInputs(e.on.parse)' = ParseInputs(e.on.parse)
        /\ ChallengeInputs(e.on.challenge)' = ChallengeInputs(e.on.challenge)
    BY <2>2 DEF ParseInputs, ChallengeInputs
  <2> QED
    BY <2>1, <2>3 DEF Committed, DisposedOf
<1>3. e.task \in Draft => DraftOf(e.task, e.out, e.on)'
  BY MadeKept DEF Committed, DraftOf, PropositionBundle, RenderedBundle, Covered
<1> QED
  BY <1>1, <1>2, <1>3 DEF Committed

LEMMA IdentitiesKept ==
    ASSUME Kept, NEW task, NEW on, on.draft \in DOMAIN history
    PROVE  ItemIdentity(task, on)' = ItemIdentity(task, on)
  BY DEF Kept, ItemIdentity, Target, Projected

-------------------------------------------------------------------------------
(* A commit                                                                  *)

LEMMA CommitStep ==
    ASSUME IInv, NEW e, NEW n, n = Current + 1, history' = Append(history, e),
           Committed(e, n),
           e.task \in Audit => NotAudited(e.task, e.on, Current)
    PROVE  History' /\ IdentitiesDiffer'
<1>1. /\ Kept /\ Current \in Nat /\ DOMAIN history = 1..Current
      /\ DOMAIN history' = 1..n /\ history'[n] = e
  BY Appending DEF IInv
<1>2. History'
  <2>1. \A g \in DOMAIN history : Committed(history[g], g)'
    BY <1>1, CommitsKept DEF IInv, History
  <2>2. Committed(e, n)'
    BY <1>1, CommitsKept
  <2>3. ASSUME NEW g \in DOMAIN history'
        PROVE  Committed(history[g], g)'
    <3>1. CASE g \in DOMAIN history
      <4>1. history'[g] = history[g] /\ Committed(history[g], g)'
        BY <2>1, <3>1, <1>1 DEF Kept
      <4> QED
        BY <4>1 DEF Committed
    <3>2. CASE g = n
      BY <2>2, <3>2, <1>1 DEF Committed
    <3> QED
      BY <1>1, <2>3, <3>1, <3>2
  <2> QED
    BY <2>3 DEF History
<1>3. IdentitiesDiffer'
  <2>1. \A task \in Audit : Made(task)' \subseteq Made(task) \cup {n}
    BY <1>1 DEF Made, Kept
  <2>2. ASSUME NEW task \in Audit, NEW g \in Made(task)
        PROVE  Identity(g)' = Identity(g) /\ g \in 1..Current /\ g # n
    <3>1. history[g].on.draft \in DOMAIN history /\ history'[g] = history[g]
      BY <1>1 DEF IInv, History, Committed, WellCalled, Made, Kept
    <3>2. ItemIdentity(history[g].task, history[g].on)'
              = ItemIdentity(history[g].task, history[g].on)
      BY <1>1, <3>1 DEF Kept, ItemIdentity, Target, Projected
    <3> QED
      BY <1>1, <3>1, <3>2 DEF Identity, Made
  <2>3. ASSUME NEW task \in Audit, n \in Made(task)', NEW g \in Made(task)
        PROVE  Identity(n)' # Identity(g)
    <3>1. e.task = task /\ e.task \in Audit
      BY <1>1, <2>3 DEF Made
    <3>2. e.on.draft \in DOMAIN history
      BY <3>1 DEF Committed, WellCalled, Made
    <3>3. Identity(n)' = ItemIdentity(task, e.on)
      <4>1. ItemIdentity(task, e.on)' = ItemIdentity(task, e.on)
        BY <1>1, <3>2, IdentitiesKept
      <4> QED
        BY <1>1, <3>1, <4>1 DEF Identity
    <3>4. Identity(g) # ItemIdentity(task, e.on)
      BY <2>2, <2>3, <3>1 DEF NotAudited
    <3> QED
      BY <3>3, <3>4
  <2>4. ASSUME NEW task \in Audit, NEW g \in Made(task)', NEW h \in Made(task)',
               Identity(g)' = Identity(h)'
        PROVE  g = h
    <3>1. CASE g \in Made(task) /\ h \in Made(task)
      BY <2>2, <2>4, <3>1 DEF IInv, IdentitiesDiffer
    <3>2. CASE g \in Made(task) /\ h = n
      BY <2>2, <2>3, <2>4, <3>2
    <3>3. CASE g = n /\ h \in Made(task)
      BY <2>2, <2>3, <2>4, <3>3
    <3> QED
      BY <2>1, <2>4, <3>1, <3>2, <3>3
  <2> QED
    BY <2>4 DEF IdentitiesDiffer
<1> QED
  BY <1>2, <1>3

\* A call that goes on as it was stays right while the history grows.
LEMMA CallsStep ==
    ASSUME Shaped, Calls, Kept, NEW r \in Runner,
           \/ job' = job
           \/ job' = [job EXCEPT ![r] = Idle]
    PROVE  Calls' /\ DOMAIN job' = Runner /\ \A k \in Runner : DOMAIN job'[k] = FieldsOfCall
<1>1. /\ DOMAIN job' = Runner
      /\ \A k \in Runner : job'[k] = job[k] \/ job'[k] = Idle
  BY DEF Shaped
<1>2. Idle.pc = "idle" /\ DOMAIN Idle = FieldsOfCall
  BY DEF Idle, FieldsOfCall
<1>3. \A k \in Runner : DOMAIN job'[k] = FieldsOfCall
  BY <1>1, <1>2 DEF Shaped
<1>4. ASSUME NEW k \in Runner, job'[k].pc # "idle"
      PROVE  /\ job'[k].task \in Discovery \cup Draft \cup Audit
             /\ WellCalled(job[k].task, job[k].on, job[k].deps)'
             /\ job'[k].pc = "working" /\ job'[k].task = "claims" =>
                    job'[k].base = job'[k].on.challenge
  <2>1. job'[k] = job[k] /\ job[k].pc # "idle"
    BY <1>1, <1>2, <1>4
  <2>2. WellCalled(job[k].task, job[k].on, job[k].deps)
    BY <2>1 DEF Calls
  <2>3. ASSUME NEW call, call = job[k]
        PROVE  WellCalled(call.task, call.on, call.deps)'
    BY <2>2, <2>3, CallsKept
  <2>4. WellCalled(job[k].task, job[k].on, job[k].deps)'
    BY <2>1, <2>3 DEF WellCalled
  <2> QED
    BY <2>1, <2>4 DEF Calls
<1> QED
  BY <1>1, <1>3, <1>4 DEF Calls

\* A step that commits nothing.
LEMMA QuietStep ==
    ASSUME IInv, UNCHANGED history,
           DOMAIN job' = Runner, \A k \in Runner : DOMAIN job'[k] = FieldsOfCall, Calls'
    PROVE  IInv'
<1>1. Shaped'
  BY DEF IInv, Shaped
<1>2. Kept
  BY DEF Kept
<1>3. History'
  <2>1. \A g \in DOMAIN history : Committed(history[g], g)'
    BY <1>2, CommitsKept DEF IInv, History
  <2> QED
    BY <2>1 DEF History, Committed
<1>4. IdentitiesDiffer'
  <2>1. ASSUME NEW g
        PROVE  Identity(g)' = Identity(g)
    BY DEF Identity, ItemIdentity, Target, Projected
  <2> QED
    BY <2>1 DEF IInv, IdentitiesDiffer, Made
<1> QED
  BY <1>1, <1>3, <1>4 DEF IInv

-------------------------------------------------------------------------------
(* Initially, and with each action                                           *)

LEMMA InitOK == Init => IInv
<1> SUFFICES ASSUME Init PROVE IInv
  OBVIOUS
<1>1. history = <<>> /\ DOMAIN history = {} /\ history \in Seq({})
  BY DEF Init
<1>2. history \in Seq({history[g] : g \in DOMAIN history})
  BY <1>1, SequenceOfItsElements
<1>3. DOMAIN job = Runner /\ \A r \in Runner : DOMAIN job[r] = FieldsOfCall
  BY DEF Init, Idle, FieldsOfCall
<1>4. Calls
  BY DEF Init, Idle, Calls
<1> QED
  BY <1>1, <1>2, <1>3, <1>4 DEF IInv, Shaped, History, IdentitiesDiffer, Made

\* Calling a task with inputs that are there.
LEMMA BeginStep ==
    ASSUME IInv, NEW r \in Runner, NEW on,
           NEW task \in Discovery \cup Draft \cup Audit, Call(r, task, on),
           WellCalled(task, on, DependenciesOf(task, on))
    PROVE  IInv'
<1>1. /\ UNCHANGED history /\ Kept
      /\ job' = [job EXCEPT ![r] = [pc |-> "called", task |-> task, on |-> on,
                                    deps |-> DependenciesOf(task, on), base |-> Current]]
  BY DEF Call, Kept
<1>2. PICK call : call = [pc |-> "called", task |-> task, on |-> on,
                          deps |-> DependenciesOf(task, on), base |-> Current]
  OBVIOUS
<1>3. DOMAIN call = FieldsOfCall /\ call.pc = "called"
  BY <1>2 DEF FieldsOfCall
<1>4. /\ DOMAIN job' = Runner /\ job'[r] = call
      /\ \A k \in Runner : k # r => job'[k] = job[k]
  BY <1>1, <1>2 DEF IInv, Shaped
<1>5. \A k \in Runner : DOMAIN job'[k] = FieldsOfCall
  BY <1>3, <1>4 DEF IInv, Shaped
<1>6. ASSUME NEW k \in Runner, job'[k].pc # "idle"
      PROVE  /\ job'[k].task \in Discovery \cup Draft \cup Audit
             /\ WellCalled(job[k].task, job[k].on, job[k].deps)'
  <2>1. PICK c : c = job'[k]
    OBVIOUS
  <2>2. WellCalled(c.task, c.on, c.deps)
    <3>1. CASE k = r
      BY <1>2, <1>4, <2>1, <3>1
    <3>2. CASE k # r
      BY <1>4, <1>6, <2>1, <3>2 DEF IInv, Calls
    <3> QED
      BY <3>1, <3>2
  <2>3. WellCalled(c.task, c.on, c.deps)'
    BY <1>1, <2>2, CallsKept
  <2>4. job'[k].task \in Discovery \cup Draft \cup Audit
    BY <1>2, <1>4, <1>6 DEF IInv, Calls
  <2> QED
    BY <2>1, <2>3, <2>4 DEF WellCalled
<1>7. Calls'
  BY <1>3, <1>4, <1>6 DEF IInv, Calls
<1> QED
  BY <1>1, <1>4, <1>5, <1>7, QuietStep

LEMMA CallSteps ==
    ASSUME IInv, NEW r \in Runner,
           \/ CallParse(r) \/ CallChallenge(r) \/ CallClaims(r)
           \/ CallPropositions(r) \/ CallRendering(r) \/ CallAudit(r)
    PROVE  IInv'
<1>1. CASE CallParse(r)
  <2>1. PICK i \in Input : Call(r, "parse", i)
    BY <1>1 DEF CallParse
  <2> QED
    BY <2>1, Kinds, BeginStep DEF WellCalled, Discovery
<1>2. CASE CallChallenge(r)
  <2>1. PICK g \in Made("parse") : Call(r, "challenge", [parse |-> g])
    BY <1>2 DEF CallChallenge
  <2> QED
    BY <2>1, Kinds, BeginStep DEF WellCalled, Discovery
<1>3. CASE CallClaims(r)
  <2>1. PICK g \in Made("parse"), h \in Made("challenge") :
            OneChain(g, h) /\ Call(r, "claims", [parse |-> g, challenge |-> h])
    BY <1>3 DEF CallClaims
  <2> QED
    BY <2>1, Kinds, BeginStep DEF WellCalled, Discovery
<1>4. CASE CallPropositions(r)
  <2>1. PICK S \in (SUBSET Claim) \ {{}} : Call(r, "propositions", S)
    BY <1>4 DEF CallPropositions
  <2>2. DOMAIN DependenciesOf("propositions", S) = S
    BY Kinds DEF DependenciesOf, DependenciesOn
  <2> QED
    BY <2>1, <2>2, Kinds, BeginStep DEF WellCalled, Discovery
<1>5. CASE CallRendering(r)
  <2>1. PICK S \in (SUBSET Passing) \ {{}} : Call(r, "render", S)
    BY <1>5 DEF CallRendering
  <2>2. DOMAIN DependenciesOf("render", S) = S
    BY Kinds DEF DependenciesOf, DependenciesOn
  <2> QED
    BY <2>1, <2>2, Kinds, BeginStep DEF WellCalled, Discovery
<1>6. CASE CallAudit(r)
  <2>1. PICK task \in Audit :
            \E d \in Made(AuditedKind[task]) : \E i \in DOMAIN history[d].out :
                Call(r, task, [draft |-> d, ref |-> i])
    BY <1>6 DEF CallAudit
  <2>2. PICK d \in Made(AuditedKind[task]) :
            \E i \in DOMAIN history[d].out : Call(r, task, [draft |-> d, ref |-> i])
    BY <2>1
  <2>3. PICK i \in DOMAIN history[d].out : Call(r, task, [draft |-> d, ref |-> i])
    BY <2>2
  <2> QED
    BY <2>3, Kinds, BeginStep DEF WellCalled, Discovery
<1> QED
  BY <1>1, <1>2, <1>3, <1>4, <1>5, <1>6

LEMMA PreflightStep ==
    ASSUME IInv, NEW r \in Runner, Preflight(r)
    PROVE  IInv'
<1>1. UNCHANGED history /\ Kept /\ Contract(job[r]) /\ job[r].pc = "called"
  BY DEF Preflight, Kept
<1>2. /\ DOMAIN job' = Runner
      /\ DOMAIN job'[r] = DOMAIN job[r]
      /\ job'[r].pc = "working" /\ job'[r].task = job[r].task
      /\ job'[r].on = job[r].on /\ job'[r].deps = job[r].deps
      /\ job'[r].base = job[r].base
      /\ \A k \in Runner : k # r => job'[k] = job[k]
  BY DEF Preflight, IInv, Shaped, FieldsOfCall
<1>3. \A k \in Runner : DOMAIN job'[k] = FieldsOfCall
  BY <1>2 DEF IInv, Shaped
<1>4. ASSUME NEW k \in Runner, job'[k].pc # "idle"
      PROVE  /\ job'[k].task \in Discovery \cup Draft \cup Audit
             /\ WellCalled(job[k].task, job[k].on, job[k].deps)'
  <2>1. PICK c : c = job'[k]
    OBVIOUS
  <2>2. WellCalled(job[k].task, job[k].on, job[k].deps)
    BY <1>1, <1>2, <1>4 DEF IInv, Calls
  <2>3. c.task = job[k].task /\ c.on = job[k].on /\ c.deps = job[k].deps
    BY <1>2, <2>1
  <2>4. WellCalled(c.task, c.on, c.deps)'
    BY <1>1, <2>2, <2>3, CallsKept
  <2>5. job'[k].task \in Discovery \cup Draft \cup Audit
    BY <1>1, <1>2, <1>4 DEF IInv, Calls
  <2> QED
    BY <2>1, <2>4, <2>5 DEF WellCalled
<1>5. job[r].task = "claims" => job[r].base = job[r].on.challenge
  BY <1>1 DEF Contract, ClaimsContract
<1>6. Calls'
  BY <1>2, <1>4, <1>5 DEF IInv, Calls
<1> QED
  BY <1>1, <1>2, <1>3, <1>6, QuietStep

\* What was checked of the call before it was committed.
LEMMA AcceptStep ==
    ASSUME IInv, NEW r \in Runner, Accept(r)
    PROVE  IInv'
<1>1. PICK j : j = job[r]
  OBVIOUS
<1>2. /\ j.pc = "working" /\ j.base = Current /\ Promotable(j)
      /\ job' = [job EXCEPT ![r] = Idle]
  BY <1>1 DEF Accept, Fresh
<1>3. PICK out \in Proposal(j.task, j.on) : Materialize(j, out)
  BY <1>1 DEF Accept
<1>4. PICK e : e = [task |-> j.task, on |-> j.on, deps |-> j.deps,
                    source |-> j.base, out |-> out]
  OBVIOUS
<1>5. /\ e.task = j.task /\ e.on = j.on /\ e.deps = j.deps /\ e.source = j.base
      /\ e.out = out /\ history' = Append(history, e)
  BY <1>3, <1>4 DEF Materialize
<1>6. /\ Kept /\ Current \in Nat /\ DOMAIN history = 1..Current
      /\ (history \in Seq({history[g] : g \in DOMAIN history}))'
  BY <1>5, Appending DEF IInv
<1>7. PICK n : n = Current + 1
  OBVIOUS
<1>8. /\ WellCalled(j.task, j.on, j.deps)
      /\ j.task = "claims" => j.base = j.on.challenge
  BY <1>1, <1>2 DEF IInv, Calls
<1>9. WellAudited(j.task, j.on, j.deps)
  BY <1>2, Kinds DEF WellAudited, Promotable, PromotableProposition, PromotableSentence,
     SourceDependencies
<1>10. j.task \in Audit => NotAudited(j.task, j.on, j.base)
  BY <1>2, Kinds DEF Promotable, PromotableProposition, PromotableSentence
<1>11. j.task = "claims" => DisposedOf(j.on, out)
  <2>1. SUFFICES ASSUME j.task = "claims" PROVE DisposedOf(j.on, out)
    OBVIOUS
  <2>2. Proposal("claims", j.on) = ClaimsProposal(j.on)
    BY Kinds DEF Proposal
  <2> QED
    BY <1>3, <2>1, <2>2 DEF ClaimsProposal
<1>12. j.task \in Draft => DraftOf(j.task, out, j.on)
  <2>1. SUFFICES ASSUME j.task \in Draft PROVE DraftOf(j.task, out, j.on)
    OBVIOUS
  <2>2. Proposal(j.task, j.on)
            = {items \in BoundedSeq(Items(j.on), MaxItems) : DraftOf(j.task, items, j.on)}
    BY <2>1, Kinds DEF Proposal
  <2> QED
    BY <1>3, <2>2
<1>13. Committed(e, n)
  <2>1. j.task \in Audit => j.on.draft < n
    BY <1>6, <1>7, <1>8 DEF WellCalled, Made
  <2>2. e.source = n - 1
    BY <1>2, <1>5, <1>6, <1>7
  <2>3. e.task = "claims" => e.on.challenge = n - 1 /\ DisposedOf(e.on, e.out)
    BY <1>2, <1>5, <1>8, <1>11, <2>2
  <2> QED
    BY <1>5, <1>8, <1>9, <1>12, <2>1, <2>2, <2>3 DEF Committed
<1>14. History' /\ IdentitiesDiffer'
  BY <1>2, <1>5, <1>7, <1>10, <1>13, CommitStep
<1>15. Calls' /\ DOMAIN job' = Runner /\ \A k \in Runner : DOMAIN job'[k] = FieldsOfCall
  BY <1>2, <1>6, CallsStep DEF IInv
<1> QED
  BY <1>6, <1>14, <1>15 DEF IInv, Shaped

LEMMA OtherStep ==
    ASSUME IInv, OtherCommit
    PROVE  IInv'
<1>1. PICK e : e = [task |-> "other", on |-> {}, deps |-> <<>>,
                    source |-> Current, out |-> {}]
  OBVIOUS
<1>2. /\ e.task = "other" /\ e.source = Current
      /\ history' = Append(history, e) /\ job' = job
  BY <1>1 DEF OtherCommit
<1>3. /\ Kept /\ Current \in Nat
      /\ (history \in Seq({history[g] : g \in DOMAIN history}))'
  BY <1>2, Appending DEF IInv
<1>4. PICK n : n = Current + 1
  OBVIOUS
<1>5. Committed(e, n)
  BY <1>2, <1>3, <1>4, Kinds DEF Committed, WellCalled, WellAudited
<1>6. e.task \notin Audit
  BY <1>2, Kinds
<1>7. History' /\ IdentitiesDiffer'
  BY <1>2, <1>4, <1>5, <1>6, CommitStep
<1>8. Calls' /\ DOMAIN job' = Runner /\ \A k \in Runner : DOMAIN job'[k] = FieldsOfCall
  <2> Runner = {} \/ \E r : r \in Runner
    OBVIOUS
  <2>1. CASE Runner = {}
    BY <1>2, <2>1 DEF IInv, Shaped, Calls
  <2>2. CASE \E r : r \in Runner
    BY <1>2, <1>3, <2>2, CallsStep DEF IInv
  <2> QED
    BY <2>1, <2>2
<1> QED
  BY <1>3, <1>7, <1>8 DEF IInv, Shaped

-------------------------------------------------------------------------------
(* The invariant                                                             *)

LEMMA NextOK == IInv /\ [Next]_chainVars => IInv'
<1> SUFFICES ASSUME IInv, [Next]_chainVars PROVE IInv'
  OBVIOUS
<1>1. CASE UNCHANGED chainVars
  BY <1>1, QuietStep DEF chainVars, IInv, Shaped, Calls, WellCalled, Made, OneChain
<1>2. ASSUME NEW r \in Runner, Answer(r) \/ Leave(r)
      PROVE  IInv'
  <2>1. UNCHANGED history /\ Kept /\ job' = [job EXCEPT ![r] = Idle]
    BY <1>2 DEF Answer, Leave, Kept
  <2> QED
    BY <2>1, CallsStep, QuietStep DEF IInv
<1> QED
  BY <1>1, <1>2, CallSteps, PreflightStep, AcceptStep, OtherStep DEF Next

\* Whatever the runtimes call, IInv holds.
THEOREM ChainInvariant == Spec => []IInv
<1>1. Init => IInv
  BY InitOK
<1>2. IInv /\ [Next]_chainVars => IInv'
  BY NextOK
<1> QED
  BY <1>1, <1>2, PTL DEF Spec

\* ItemsAuditedOnce: an audit has its draft's dependencies, so that audits of
\* one item on equal dependencies have the identity that the code looks up in
\* the history (_find_prior_draft_audit), and it lets no two of them in.
THEOREM AuditedOnce == Spec => []ItemsAuditedOnce
<1>1. IInv => ItemsAuditedOnce
  <2>1. SUFFICES ASSUME IInv, NEW task \in Audit, NEW g \in Made(task), NEW h \in Made(task),
                        Target(history[h].on) = Target(history[g].on),
                        \A s \in Target(history[g].on).sources :
                            history[h].deps[s] = history[g].deps[s]
                 PROVE  g = h
    BY DEF ItemsAuditedOnce
  <2>2. /\ history[history[g].on.draft].deps = history[g].deps
        /\ history[history[h].on.draft].deps = history[h].deps
        /\ history[g].task = task /\ history[h].task = task
    BY <2>1 DEF IInv, History, Committed, WellAudited, Made
  <2>3. Projected(history[g].deps, Target(history[g].on).sources)
            = Projected(history[h].deps, Target(history[h].on).sources)
    BY <2>1 DEF Projected
  <2>4. Identity(g) = Identity(h)
    BY <2>1, <2>2, <2>3 DEF Identity, ItemIdentity
  <2> QED
    BY <2>1, <2>4 DEF IInv, IdentitiesDiffer
<1> QED
  BY <1>1, ChainInvariant, PTL

\* ClaimsAccountForTheirChain: claims are committed in the generation after
\* their challenge (the contract of discovery.py), which is the one after its
\* parse, and dispose of everything that the two have found.
THEOREM ClaimsAccounted == Spec => []ClaimsAccountForTheirChain
<1>1. IInv => ClaimsAccountForTheirChain
  <2>1. SUFFICES ASSUME IInv, NEW g \in Made("claims")
                 PROVE  /\ history[g].on.challenge = g - 1 /\ history[g].on.parse = g - 2
                        /\ UNION history[g].out.claims \cup history[g].out.excluded =
                               ParseInputs(g - 2) \cup ChallengeInputs(g - 1)
    BY DEF ClaimsAccountForTheirChain
  <2>2. /\ history[g].on.challenge = g - 1
        /\ history[g].on.challenge \in Made("challenge")
        /\ OneChain(history[g].on.parse, history[g].on.challenge)
        /\ DisposedOf(history[g].on, history[g].out)
    BY <2>1 DEF IInv, History, Committed, WellCalled, Made
  <2>3. history[history[g].on.challenge].source = g - 1 - 1
    BY <2>1, <2>2 DEF IInv, History, Committed, Made
  <2>4. DOMAIN history = 1..Len(history) /\ Len(history) \in Nat /\ g \in Nat
    BY <2>1 DEF IInv, Shaped, Made
  <2>5. history[g].on.parse = g - 2
    BY <2>2, <2>3, <2>4 DEF OneChain
  <2> QED
    BY <2>2, <2>5 DEF DisposedOf
<1> QED
  BY <1>1, ChainInvariant, PTL

\* AcceptedIsReusable: what the verification of a receipt demands was checked
\* when it was committed, and only of what lies below it.
THEOREM AcceptedReusable == Spec => []AcceptedIsReusable
<1>1. IInv => AcceptedIsReusable
  <2>1. SUFFICES ASSUME IInv, NEW r \in Runner, job[r].pc = "called",
                        NEW g \in Receipts(job[r]),
                        DependenciesOf(job[r].task, job[r].on) = job[r].deps
                 PROVE  Verified(g, job[r])
    BY DEF AcceptedIsReusable
  <2>2. PICK j : j = job[r]
    OBVIOUS
  <2>3. PICK e : e = history[g]
    OBVIOUS
  <2>4. /\ g \in DOMAIN history /\ g \in Made(e.task)
        /\ e.task = j.task /\ e.on = j.on /\ e.deps = j.deps
        /\ Committed(e, g)
    BY <2>1, <2>2, <2>3 DEF Receipts, Made, IInv, History
  <2>5. CASE j.task \in Discovery
    <3>1. j.task \in {"parse", "challenge", "claims"}
      BY <2>5 DEF Discovery
    <3>2. SameDiscovery(g, j)
      BY <2>3, <2>4, <3>1 DEF SameDiscovery, ExactDiscovery, Committed, WellCalled
    <3> QED
      BY <2>1, <2>2, <2>5, <3>1, <3>2, Kinds DEF Verified
  <2>6. CASE j.task \in Draft
    <3>1. SameDraft(g)
      BY <2>3, <2>4, <2>6 DEF SameDraft, LoadedDraft, ExactDraft, Committed, WellCalled
    <3>2. j.task \notin Discovery
      BY <2>6, Kinds DEF Discovery
    <3> QED
      BY <2>1, <2>2, <2>6, <3>1, <3>2, Kinds DEF Verified
  <2>7. CASE j.task = "audit_proposition"
    <3>1. LoadedAudit(g)
      <4>1. g \in Nat /\ e.on.draft \in Nat
        BY <2>1, <2>4, <2>7, Kinds DEF IInv, Shaped, Committed, WellCalled, Made
      <4> QED
        BY <4>1, <2>3, <2>4, <2>7, Kinds
           DEF LoadedAudit, ExactAudit, SourceDependencies, Committed, WellCalled, WellAudited
    <3>2. SamePropositionAudit(g, j)
      BY <2>3, <2>4, <2>7, <3>1, Kinds
         DEF SamePropositionAudit, SourceDependencies, Replays, Committed, WellAudited
    <3> QED
      BY <2>1, <2>2, <2>7, <3>2, Kinds DEF Verified, Discovery
  <2>8. CASE j.task = "audit_sentence"
    <3>1. LoadedAudit(g)
      <4>1. g \in Nat /\ e.on.draft \in Nat
        BY <2>1, <2>4, <2>8, Kinds DEF IInv, Shaped, Committed, WellCalled, Made
      <4> QED
        BY <4>1, <2>3, <2>4, <2>8, Kinds
           DEF LoadedAudit, ExactAudit, SourceDependencies, Committed, WellCalled, WellAudited
    <3>2. SameSentenceAudit(g, j)
      BY <2>3, <2>4, <2>8, <3>1, Kinds
         DEF SameSentenceAudit, SourceDependencies, Replays, Committed, WellAudited
    <3> QED
      BY <2>1, <2>2, <2>8, <3>2, Kinds DEF Verified, Discovery
  <2> QED
    BY <2>1, <2>2, <2>5, <2>6, <2>7, <2>8, Kinds DEF IInv, Calls
<1> QED
  BY <1>1, ChainInvariant, PTL
================================================================================
