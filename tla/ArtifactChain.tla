------------------------------ MODULE ArtifactChain ------------------------------
(***************************************************************************)
(* The witnesses that accepted tasks leave in their generations, and the   *)
(* tasks that consume the witnesses of earlier ones:                       *)
(*                                                                         *)
(*   parse -> challenge -> claims             (discovery.py)               *)
(*   propositions -> audit_proposition        (drafts.py,                  *)
(*   render -> audit_sentence                  draft_transitions.py)       *)
(*                                                                         *)
(* A task commits one generation with its receipt, its artifact and the    *)
(* indexes that find both.  None of them is ever rebuilt on a stale base.  *)
(* The record of a generation stands for receipt and artifact, which bind  *)
(* each other; its number stands for the reference to the artifact, whose  *)
(* hash no other generation can have because it names its owner.           *)
(*                                                                         *)
(* Of the snapshot only the packets of claims are kept: what a proposition *)
(* cites, and what may change until it is cited.                           *)
(***************************************************************************)
EXTENDS Naturals, Sequences, FiniteSets, SequencesExt

CONSTANTS
    Runner,            \* runtimes, each with one call at a time
    Input,             \* topics with their documents
    Concept,           \* what a discovery document may name
    Sketch,            \* what a challenge says of the papers themselves
    Claim,
    Wording,           \* of a claim's packet
    FirstWording,
    Text,              \* of a proposition or a sentence
    MaxItems,          \* bound: items of a draft
    MaxScan,           \* the bound of the code on the history of audits
    MaxGeneration      \* bound: commits

ASSUME ChainAssumption ==
    /\ FirstWording \in Wording
    /\ MaxItems \in Nat /\ MaxScan \in Nat /\ MaxGeneration \in Nat

VARIABLES
    history,           \* what each generation of CURRENT was made by
    packet,            \* the packets of CURRENT
    job                \* the call that a runtime is in

chainVars == <<history, packet, job>>

Discovery == {"parse", "challenge", "claims"}

\* The kind of draft that an audit reads.
AuditedKind == [audit_proposition |-> "propositions", audit_sentence |-> "render"]
Audit == DOMAIN AuditedKind
Draft == {AuditedKind[a] : a \in Audit}

Idle == [pc |-> "idle", task |-> "none", on |-> {}, deps |-> <<>>, base |-> 0]

Init ==
    /\ history = <<>>
    /\ packet = [c \in Claim |-> FirstWording]
    /\ job = [r \in Runner |-> Idle]

Current == Len(history)
Made(task) == {g \in DOMAIN history : history[g].task = task}

(***************************************************************************)
(* Drafts and the items they hold                                          *)
(***************************************************************************)
\* An audit names a draft and a local reference in it.
Target(on) == history[on.draft].out[on.ref]

\* An item is what it says and what it rests on, whatever its local reference
\* and its siblings are: the dependencies of the draft are projected down to it.
Projected(deps, S) == [s \in S |-> deps[s]]

\* Faulty: an item is identified by the draft it came in.
IdentityInDraft(task, on) == [task |-> task, item |-> Target(on), deps |-> on.draft]

ItemIdentity(task, on) ==
    LET item == Target(on)
    IN [task |-> task, item |-> item,
        deps |-> Projected(history[on.draft].deps, item.sources)]

Identity(g) == ItemIdentity(history[g].task, history[g].on)

\* A proposition and its audit become canonical whatever the verdict, under a
\* new identifier each: the generation stands for both.
Passing == {g \in Made("audit_proposition") : history[g].out = "pass"}

Cited(c) ==
    \E g \in Made("audit_proposition") : c \in Target(history[g].on).sources

Items(S) == [text : Text, sources : (SUBSET S) \ {{}}]
Covered(items) == UNION {items[i].sources : i \in DOMAIN items}

\* Every item stays within the invoked sources, and together they cover them.
PropositionBundle(items, S) == items # <<>> /\ Covered(items) = S
RenderedBundle(items, S) == S \subseteq Passing /\ items # <<>> /\ Covered(items) = S

DraftOf(task, items, S) ==
    /\ task = "propositions" => PropositionBundle(items, S)
    /\ task = "render" => RenderedBundle(items, S)

(***************************************************************************)
(* Dependencies and receipts                                               *)
(***************************************************************************)
\* The dependencies of a task at CURRENT: packets of claims, or propositions
\* with their audits, which never change.
DependenciesOn(S, kind) ==
    [s \in S |-> IF kind \in {"propositions", "audit_proposition"} THEN packet[s] ELSE "pass"]

DependenciesOf(task, on) ==
    CASE task \in Draft -> DependenciesOn(on, task)
      [] task = "audit_proposition" -> DependenciesOn(history[on.draft].on, task)
      [] task = "audit_sentence" -> DependenciesOn(Target(on).sources, task)
      [] OTHER -> <<>>

\* The receipts with the key of a call: task, inputs and dependencies.
Receipts(j) ==
    {g \in Made(j.task) : history[g].on = j.on /\ history[g].deps = j.deps}

(***************************************************************************)
(* What the loaders check of an artifact                                   *)
(***************************************************************************)
ExactDiscovery(g) ==
    /\ history[g].source = g - 1
    /\ history[g].task = "challenge" => history[g].on.parse \in Made("parse")
    /\ history[g].task = "claims" =>
           history[g].on.parse \in Made("parse") /\ history[g].on.challenge \in Made("challenge")

ExactDraft(g) ==
    /\ history[g].source = g - 1
    /\ DOMAIN history[g].deps = history[g].on

LoadedDraft(d) == ExactDraft(d)

\* What an audit reads: an item of a draft of the right kind.  A sentence stays
\* within the propositions that its draft was rendered from.
PropositionContext(on) ==
    /\ on.draft \in Made("propositions") /\ LoadedDraft(on.draft)
    /\ on.ref \in DOMAIN history[on.draft].out

SentenceContext(on) ==
    /\ on.draft \in Made("render") /\ LoadedDraft(on.draft)
    /\ on.ref \in DOMAIN history[on.draft].out
    /\ Target(on).sources \subseteq history[on.draft].on

\* An audit has the dependencies of its draft, unchanged.
SourceDependencies(j) == history[j.on.draft].deps = j.deps

\* The draft of an audit is older than it.
ExactAudit(g) ==
    /\ history[g].source = g - 1
    /\ history[g].on.draft \in Made(AuditedKind[history[g].task])
    /\ history[g].on.draft <= history[g].source
    /\ history[g].on.ref \in DOMAIN history[history[g].on.draft].out

LoadedAudit(g) == ExactAudit(g) /\ SourceDependencies(history[g])

(***************************************************************************)
(* Proposals                                                               *)
(***************************************************************************)
\* What a parse and a challenge hand on.
ParseInputs(g) == {[from |-> "parse", of |-> k] : k \in history[g].out}
ChallengeInputs(h) ==
    {[from |-> "challenge", of |-> k] : k \in history[h].out \cup {Sketch}}

\* A challenge covers every concept of its parse.
ValidChallenge(parse, findings) == findings = history[parse].out

\* Every claim has an origin in both artifacts.
ValidOrigins(inputs, out) ==
    /\ out.claims # {}
    /\ \A origins \in out.claims :
           /\ origins \subseteq inputs
           /\ \E i \in origins : i.from = "parse"
           /\ \E i \in origins : i.from = "challenge"

\* Faulty: what the challenge adds may be passed over.
DisposedOfParse(on, out) ==
    /\ ParseInputs(on.parse) \subseteq UNION out.claims \cup out.excluded
    /\ out.excluded \cap UNION out.claims = {}

\* Every input is included in a claim or excluded by name.
DisposedOf(on, out) ==
    /\ UNION out.claims \cup out.excluded = ParseInputs(on.parse) \cup ChallengeInputs(on.challenge)
    /\ out.excluded \cap UNION out.claims = {}

\* Whatever the verdict, an audit is of an item that might be canonical: its
\* citations are of packets that the draft was made from, its sources passed.
AuthorizedCitations(on) == Target(on).sources \subseteq history[on.draft].on
AuditedSources(on) == Target(on).sources \subseteq Passing

ParseProposal == (SUBSET Concept) \ {{}}
ChallengeProposal(on) == {S \in SUBSET Concept : ValidChallenge(on.parse, S)}
ClaimsProposal(on) ==
    LET inputs == ParseInputs(on.parse) \cup ChallengeInputs(on.challenge)
    IN {out \in [claims : SUBSET (SUBSET inputs), excluded : SUBSET inputs] :
            ValidOrigins(inputs, out) /\ DisposedOf(on, out)}

Proposal(task, on) ==
    CASE task = "parse" -> ParseProposal
      [] task = "challenge" -> ChallengeProposal(on)
      [] task = "claims" -> ClaimsProposal(on)
      [] task \in Draft -> {items \in BoundedSeq(Items(on), MaxItems) : DraftOf(task, items, on)}
      [] task \in Audit -> {"pass", "fail"}

(***************************************************************************)
(* A call                                                                  *)
(***************************************************************************)
\* load_current(), and the hashes of the dependencies.
Call(r, task, on) ==
    /\ job[r] = Idle
    /\ Current < MaxGeneration
    /\ job' = [job EXCEPT ![r] = [pc |-> "called", task |-> task, on |-> on,
                                  deps |-> DependenciesOf(task, on), base |-> Current]]
    /\ UNCHANGED <<history, packet>>

CallParse(r) == \E i \in Input : Call(r, "parse", i)

\* The topic is that of the parse.
CallChallenge(r) == \E g \in Made("parse") : Call(r, "challenge", [parse |-> g])

\* The challenge is derived from the parse, and was committed right after it.
OneChain(parse, challenge) ==
    /\ history[challenge].on.parse = parse
    /\ history[challenge].source = parse

CallClaims(r) ==
    \E g \in Made("parse"), h \in Made("challenge") :
        OneChain(g, h) /\ Call(r, "claims", [parse |-> g, challenge |-> h])

CallPropositions(r) == \E S \in (SUBSET Claim) \ {{}} : Call(r, "propositions", S)
CallRendering(r) == \E S \in (SUBSET Passing) \ {{}} : Call(r, "render", S)

CallAudit(r) ==
    \E task \in Audit : \E d \in Made(AuditedKind[task]) : \E i \in DOMAIN history[d].out :
        Call(r, task, [draft |-> d, ref |-> i])

(***************************************************************************)
(* Reuse of an accepted receipt, under the writer lock                     *)
(***************************************************************************)
\* The artifact is found by the receipt's key in its own generation.
SameDiscovery(g, j) == ExactDiscovery(g) /\ history[g].on = j.on
SameDraft(g) == LoadedDraft(g) /\ DraftOf(history[g].task, history[g].out, history[g].on)

\* Faulty: the replay must have the base generation of the accepted task.
ReplaysAtBase(g, j) ==
    history[g].on = j.on /\ history[g].deps = j.deps /\ history[g].source = j.base

\* Every input of the task, but not the task and its base generation.
Replays(g, j) == history[g].on = j.on /\ history[g].deps = j.deps

\* It is the accepted audit of this item of this draft.
SamePropositionAudit(g, j) ==
    /\ AuthorizedCitations(j.on)
    /\ LoadedAudit(g)
    /\ PropositionContext(j.on) /\ SourceDependencies(j)
    /\ Replays(g, j)

SameSentenceAudit(g, j) ==
    /\ AuditedSources(j.on)
    /\ LoadedAudit(g)
    /\ SentenceContext(j.on) /\ SourceDependencies(j)
    /\ Replays(g, j)

Verified(g, j) ==
    /\ DependenciesOf(j.task, j.on) = j.deps
    /\ CASE j.task \in Discovery -> SameDiscovery(g, j)
         [] j.task \in Draft -> SameDraft(g)
         [] j.task = "audit_proposition" -> SamePropositionAudit(g, j)
         [] j.task = "audit_sentence" -> SameSentenceAudit(g, j)

\* The caller gets the accepted artifact, or, if it cannot be verified, an
\* internal failure: the engine does not run again.
Answer(r) ==
    /\ job[r].pc = "called"
    /\ Receipts(job[r]) # {}
    /\ job' = [job EXCEPT ![r] = Idle]
    /\ UNCHANGED <<history, packet>>

(***************************************************************************)
(* Pre-execution validation: no engine runs for what cannot be accepted    *)
(***************************************************************************)
\* _find_prior_draft_audit looks the identity up in every generation.
NotAudited(task, on, base) ==
    /\ base <= MaxScan
    /\ \A g \in Made(task) : g <= base => Identity(g) # ItemIdentity(task, on)

\* An artifact of discovery is consumed in the generation that it made.
ChallengeContract(j) == j.base = j.on.parse
ClaimsContract(j) == j.base = j.on.challenge

PropositionAuditContract(j) ==
    /\ PropositionContext(j.on) /\ SourceDependencies(j)
    /\ NotAudited(j.task, j.on, j.base)

SentenceAuditContract(j) ==
    /\ SentenceContext(j.on) /\ SourceDependencies(j)
    /\ NotAudited(j.task, j.on, j.base)

Contract(j) ==
    /\ j.task = "challenge" => ChallengeContract(j)
    /\ j.task = "claims" => ClaimsContract(j)
    /\ j.task = "audit_proposition" => PropositionAuditContract(j)
    /\ j.task = "audit_sentence" => SentenceAuditContract(j)

Preflight(r) ==
    /\ job[r].pc = "called"
    /\ Receipts(job[r]) = {}
    /\ job[r].base = Current
    /\ Contract(job[r])
    /\ job' = [job EXCEPT ![r].pc = "working"]
    /\ UNCHANGED <<history, packet>>

(***************************************************************************)
(* The commit                                                              *)
(***************************************************************************)
Fresh(j) == j.base = Current /\ DependenciesOf(j.task, j.on) = j.deps

\* An audit is prepared, and promoted, for an item that is not audited yet.
PromotableProposition(j) ==
    /\ PropositionContext(j.on) /\ SourceDependencies(j)
    /\ NotAudited(j.task, j.on, j.base)
    /\ AuthorizedCitations(j.on)

PromotableSentence(j) ==
    /\ SentenceContext(j.on) /\ SourceDependencies(j)
    /\ NotAudited(j.task, j.on, j.base)
    /\ AuditedSources(j.on)

Promotable(j) ==
    /\ j.task = "audit_proposition" => PromotableProposition(j)
    /\ j.task = "audit_sentence" => PromotableSentence(j)

\* The artifact and its indexes are written into the staged generation.
Materialize(j, out) ==
    history' = Append(history, [task |-> j.task, on |-> j.on, deps |-> j.deps,
                                source |-> j.base, out |-> out])

Accept(r) ==
    /\ job[r].pc = "working"
    /\ Current < MaxGeneration
    /\ Fresh(job[r]) /\ Promotable(job[r])
    /\ \E out \in Proposal(job[r].task, job[r].on) : Materialize(job[r], out)
    /\ job' = [job EXCEPT ![r] = Idle]
    /\ UNCHANGED packet

\* Refused, stale, failed or dead: nothing is committed.
Leave(r) ==
    /\ job[r] # Idle
    /\ job' = [job EXCEPT ![r] = Idle]
    /\ UNCHANGED <<history, packet>>

\* Any other commit.  It may validate a claim again that no proposition cites.
OtherCommit ==
    /\ Current < MaxGeneration
    /\ \E c \in Claim, w \in Wording :
           /\ Cited(c) => w = packet[c]
           /\ packet' = [packet EXCEPT ![c] = w]
    /\ history' = Append(history, [task |-> "other", on |-> {}, deps |-> <<>>,
                                   source |-> Current, out |-> {}])
    /\ UNCHANGED job

Next ==
    \/ \E r \in Runner :
           \/ CallParse(r) \/ CallChallenge(r) \/ CallClaims(r)
           \/ CallPropositions(r) \/ CallRendering(r) \/ CallAudit(r)
           \/ Answer(r) \/ Preflight(r) \/ Accept(r) \/ Leave(r)
    \/ OtherCommit

Spec == Init /\ [][Next]_chainVars

(***************************************************************************)
(* Properties                                                              *)
(***************************************************************************)
\* An item is audited once: whatever drafts repeat it, under whatever local
\* reference and with whatever siblings, there is no second verdict on it.
ItemsAuditedOnce ==
    \A task \in Audit : \A g, h \in Made(task) :
        LET item == Target(history[g].on)
        IN /\ Target(history[h].on) = item
           /\ \A s \in item.sources : history[h].deps[s] = history[g].deps[s]
           => g = h

\* What was accepted can be had again: while its dependencies are what they
\* were, a repeated call is never refused, however CURRENT moved since.
AcceptedIsReusable ==
    \A r \in Runner : job[r].pc = "called" =>
        \A g \in Receipts(job[r]) :
            DependenciesOf(job[r].task, job[r].on) = job[r].deps => Verified(g, job[r])

\* Candidate claims rest on the two generations before theirs, and each thing
\* that was found there is in the origins of a claim or excluded by name.
ClaimsAccountForTheirChain ==
    \A g \in Made("claims") :
        LET on == history[g].on
            out == history[g].out
        IN /\ on.challenge = g - 1 /\ on.parse = g - 2
           /\ UNION out.claims \cup out.excluded =
                  ParseInputs(g - 2) \cup ChallengeInputs(g - 1)
================================================================================
