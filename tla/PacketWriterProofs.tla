--------------------------- MODULE PacketWriterProofs ---------------------------
(* Theorems about PacketWriter, for every number of writers, of generations, of *)
(* files in a packet, of deaths and of steps of other programs.                 *)
EXTENDS PacketWriter, SequenceTheorems, TLAPS

Bytes == Packets \cup {Partial, Other}
Names == File \cup {"alien"}
ByteSeqs == Seq(Bytes)
NameSets == SUBSET Names
Contents == UNION {[D -> Bytes] : D \in SUBSET Names}

Places == {"idle", "called", "prepared", "staging", "made", "taken", "writing", "filling",
           "sealed", "published", "reading", "rebinding", "confirmed", "failed", "cleaning",
           "unlinking", "emptying", "accepted", "refused", "dead"}
CallRecord == [pc : Places, kind : {"review", "pilot"}, base : 0..MaxGeneration,
               via : {"none", "found", "collision", "own"},
               opened : Directory \cup {NoDirectory},
               owns : {"nothing", "staging", "packet"}, next : Nat,
               seen : ByteSeqs, names : NameSets, at : 0..MaxGeneration,
               dir : Directory \cup {NoDirectory}]

\* A writer's own name never stands for the directory of another writer.
Shaped ==
    /\ current \in 0..MaxGeneration
    /\ entry \in [Name -> Directory \cup {NoDirectory}]
    /\ \A w \in Writer : entry[w] \in {NoDirectory, w, Foreign}
    /\ files \in [Directory -> Contents]
    /\ call \in [Writer -> CallRecord]

\* The foreign directory is nowhere, and no writer's; then it is where it was put,
\* as it was, until a writer takes it for its own.
ForeignKept ==
    /\ Foreign \notin touched =>
           /\ \A n \in Name : entry[n] # Foreign
           /\ \A w \in Writer : call[w].dir # Foreign
           /\ files[Foreign] = Lookalike
    /\ Foreign \in touched /\ (\A w \in Writer : call[w].dir # Foreign) =>
           (\E n \in Name : entry[n] = Foreign) /\ files[Foreign] = Lookalike

\* What a writer owns, place by place.
Ownership(w) ==
    /\ call[w].pc \in {"idle", "called", "prepared", "staging", "made", "refused", "dead"} =>
           call[w].owns = "nothing"
    /\ call[w].owns # "nothing" => call[w].dir \in {w, Foreign}
    /\ call[w].owns = "nothing" /\ call[w].pc \notin {"refused", "dead"} =>
           call[w].dir = NoDirectory
    /\ call[w].pc \in {"writing", "filling"} => 1 <= call[w].next
    /\ call[w].pc \in {"taken", "writing", "filling", "sealed", "cleaning", "emptying"} =>
           call[w].owns = "staging"
    /\ call[w].pc = "published" => call[w].owns = "packet"
    /\ call[w].pc \in {"failed", "unlinking"} => call[w].owns # "nothing"
    /\ call[w].pc \in {"unlinking", "emptying"} => call[w].opened = call[w].dir
    /\ call[w].pc \in {"cleaning", "emptying"} => call[w].via # "own"
    /\ call[w].via = "own" => call[w].owns = "packet"
    /\ call[w].pc \in {"reading", "rebinding", "confirmed"} => call[w].opened # NoDirectory

\* Before it is made, a writer's directory is nowhere and its name is free.
NotMade(w) ==
    call[w].owns = "nothing" /\ call[w].pc \notin {"made", "refused", "dead"} =>
        /\ entry[w] = NoDirectory /\ files[w] = Empty
        /\ \A n \in Name : entry[n] # w

\* Where a directory is that no other program has touched, ...
Located(w) ==
    w \notin touched =>
        /\ call[w].dir # Foreign
        /\ call[w].pc = "refused" => \A n \in Name : entry[n] # w
        /\ call[w].pc = "made" \/ (call[w].owns = "staging" /\ call[w].pc # "accepted") =>
               entry[w] = w /\ entry[Packet] # w
        /\ call[w].owns = "staging" /\ call[w].pc = "accepted" => entry[w] # w
        /\ call[w].owns = "packet" => entry[Packet] = w /\ entry[w] # w

FirstFiles(w, n) == {Files(w)[i] : i \in 1..n}

\* ... and what is in it.
Filled(w) ==
    w \notin touched =>
        /\ call[w].pc \in {"made", "taken"} => files[w] = Empty
        /\ call[w].pc = "writing" =>
               /\ call[w].next <= Len(Files(w)) + 1
               /\ files[w] = [f \in FirstFiles(w, call[w].next - 1) |-> Manifest(w)]
        /\ call[w].pc = "filling" =>
               /\ call[w].next <= Len(Files(w))
               /\ DOMAIN files[w] = FirstFiles(w, call[w].next)
               /\ \A f \in FirstFiles(w, call[w].next - 1) :
                      f # Files(w)[call[w].next] => files[w][f] = Manifest(w)
        /\ call[w].pc \in {"sealed", "published", "reading", "rebinding", "confirmed",
                           "cleaning", "accepted"} =>
               \/ call[w].owns = "nothing" \/ files[w] = Whole(w)
               \/ call[w].owns = "staging" /\ call[w].pc = "accepted"
        /\ call[w].pc = "failed" =>
               DOMAIN files[w] \subseteq {Files(w)[i] : i \in DOMAIN Files(w)}
        /\ call[w].pc \in {"unlinking", "emptying"} => DOMAIN files[w] = call[w].names

\* What a writer has read while its generation, or a later one, was CURRENT.
Judged(w) ==
    /\ call[w].pc \notin {"refused", "dead"} => call[w].base <= current
    /\ call[w].pc \in {"rebinding", "confirmed", "cleaning", "emptying", "accepted"} =>
           /\ call[w].seen = [i \in DOMAIN Files(w) |-> Manifest(w)]
           /\ call[w].base <= call[w].at /\ call[w].at <= current
    /\ call[w].pc \in {"cleaning", "emptying", "accepted"} => call[w].at = call[w].base

WriterOK(w) == Ownership(w) /\ NotMade(w) /\ Located(w) /\ Filled(w) /\ Judged(w)

IInv == Shaped /\ ForeignKept /\ \A w \in Writer : WriterOK(w)

LEMMA PacketFiles ==
    ASSUME NEW w \in Writer, call[w].kind \in {"review", "pilot"}
    PROVE  /\ Files(w) \in Seq(STRING) /\ Len(Files(w)) \in Nat /\ Len(Files(w)) > 0
           /\ DOMAIN Files(w) = 1..Len(Files(w)) /\ 1 \in DOMAIN Files(w)
           /\ \A i \in DOMAIN Files(w) : Files(w)[i] \in File
<1>1. Files(w) \in Seq(STRING) /\ Files(w) # <<>>
  BY PacketAssumption DEF Files
<1>2. Len(Files(w)) \in Nat /\ Len(Files(w)) > 0 /\ DOMAIN Files(w) = 1..Len(Files(w))
  BY <1>1, EmptySeq, LenProperties
<1>3. DOMAIN FilesOf = {"review", "pilot"}
  BY PacketAssumption
<1>4. \A i \in DOMAIN Files(w) : Files(w)[i] \in File
  BY <1>3 DEF Files, File
<1> QED
  BY <1>1, <1>2, <1>4

LEMMA ContentsHave ==
    ASSUME NEW c \in Contents
    PROVE  /\ DOMAIN c \in SUBSET Names
           /\ \A f \in DOMAIN c : c[f] \in Bytes
           /\ DOMAIN c = {} => c = Empty
<1>1. PICK D \in SUBSET Names : c \in [D -> Bytes]
  BY DEF Contents
<1> QED
  BY <1>1 DEF Empty

LEMMA ContentsAre ==
    ASSUME NEW D \in SUBSET Names, NEW c \in [D -> Bytes]
    PROVE  c \in Contents
  BY DEF Contents

LEMMA Distinct ==
    /\ Packet \notin Writer /\ Foreign \notin Writer /\ NoDirectory \notin Writer
    /\ Foreign # NoDirectory /\ Foreign # Packet /\ MaxGeneration \in Nat
  BY PacketAssumption

LEMMA IdleIs ==
    /\ Idle \in CallRecord /\ Idle.pc = "idle" /\ Idle.owns = "nothing"
    /\ Idle.via = "none" /\ Idle.base = 0 /\ Idle.dir = NoDirectory
<1>1. PICK none : none = <<>>
  OBVIOUS
<1> DEFINE i == [pc |-> "idle", kind |-> "review", base |-> 0, via |-> "none",
                 opened |-> NoDirectory, owns |-> "nothing", next |-> 1, seen |-> none,
                 names |-> {}, at |-> 0, dir |-> NoDirectory]
<1>2. Idle = i
  BY <1>1, Zenon DEF Idle
<1>3. none \in ByteSeqs /\ {} \in NameSets
  BY <1>1 DEF ByteSeqs, NameSets
<1>4. 0 \in 0..MaxGeneration
  BY Distinct
<1>5. i \in CallRecord
  BY <1>3, <1>4 DEF CallRecord, Places
<1> HIDE DEF i
<1>6. /\ i.pc = "idle" /\ i.owns = "nothing" /\ i.via = "none" /\ i.base = 0
      /\ i.dir = NoDirectory
  BY DEF i
<1> QED
  BY <1>2, <1>5, <1>6

\* Goes and Fails, which most actions end with.
LEMMA GoesCalls ==
    ASSUME Shaped, NEW w \in Writer, NEW to \in Places, Goes(w, to)
    PROVE  /\ call' \in [Writer -> CallRecord]
           /\ \A v \in Writer : v # w => call'[v] = call[v]
           /\ call'[w] = IF to \in {"refused", "dead"}
                         THEN [Idle EXCEPT !.pc = to, !.dir = call[w].dir]
                         ELSE [call[w] EXCEPT !.pc = to, !.next = 1]
<1> DEFINE c == IF to \in {"refused", "dead"}
                THEN [Idle EXCEPT !.pc = to, !.dir = call[w].dir]
                ELSE [call[w] EXCEPT !.pc = to, !.next = 1]
<1>1. call[w] \in CallRecord
  BY DEF Shaped
<1>2. [Idle EXCEPT !.pc = to, !.dir = call[w].dir] \in CallRecord
  BY <1>1, IdleIs DEF CallRecord
<1>3. [call[w] EXCEPT !.pc = to, !.next = 1] \in CallRecord
  BY <1>1 DEF CallRecord
<1>4. c \in CallRecord
  BY <1>2, <1>3
<1>5. call' = [call EXCEPT ![w] = c]
  BY DEF Goes
<1> QED
  BY <1>4, <1>5 DEF Shaped

LEMMA FailsCalls ==
    ASSUME Shaped, NEW w \in Writer, Fails(w)
    PROVE  /\ call' \in [Writer -> CallRecord]
           /\ \A v \in Writer : v # w => call'[v] = call[v]
           /\ call[w].owns = "nothing" =>
                  call'[w] = [Idle EXCEPT !.pc = "refused", !.dir = call[w].dir]
           /\ call[w].owns # "nothing" => call'[w] = [call[w] EXCEPT !.pc = "failed", !.next = 1]
           /\ UNCHANGED <<current, rooted, entry, files, touched>>
<1> DEFINE to == IF call[w].owns = "nothing" THEN "refused" ELSE "failed"
<1>1. to \in Places /\ Goes(w, to)
  BY DEF Fails, Places
<1>2. /\ call' \in [Writer -> CallRecord]
      /\ \A v \in Writer : v # w => call'[v] = call[v]
      /\ call'[w] = IF to \in {"refused", "dead"}
                    THEN [Idle EXCEPT !.pc = to, !.dir = call[w].dir]
                    ELSE [call[w] EXCEPT !.pc = to, !.next = 1]
  BY <1>1, GoesCalls
<1>3. UNCHANGED <<current, rooted, entry, files, touched>>
  BY DEF Fails, OnlyCall
<1> QED
  BY <1>2, <1>3

\* A writer whose call and directory are left alone, and whose names stand for
\* what they stood for.
LEMMA OthersRest ==
    ASSUME IInv, NEW v \in Writer, call'[v] = call[v], files'[v] = files[v],
           entry'[v] = entry[v], \A n \in Name : entry'[n] = v <=> entry[n] = v,
           touched \subseteq touched', current <= current', current' \in Nat
    PROVE  WriterOK(v)'
<1>1. WriterOK(v) /\ call[v] \in CallRecord /\ current \in Nat /\ Packet \in Name /\ v \in Name
  BY Distinct DEF IInv, Shaped, Name
<1>2. call[v].base \in Nat /\ call[v].at \in Nat
  BY <1>1 DEF CallRecord
<1>3. Ownership(v)' /\ NotMade(v)'
  BY <1>1 DEF WriterOK, Ownership, NotMade
<1>4. Located(v)'
  BY <1>1 DEF WriterOK, Located
<1>5. Filled(v)'
  <2>1. Files(v)' = Files(v) /\ Manifest(v)' = Manifest(v) /\ Whole(v)' = Whole(v)
    BY DEF Files, Manifest, Whole
  <2>2. \A n : FirstFiles(v, n)' = FirstFiles(v, n)
    BY <2>1 DEF FirstFiles
  <2>3. v \notin touched' => v \notin touched
    OBVIOUS
  <2> QED
    BY <1>1, <2>1, <2>2, <2>3 DEF WriterOK, Filled
<1>6. Judged(v)'
  BY <1>1, <1>2 DEF WriterOK, Judged, Files, Manifest
<1> QED
  BY <1>3, <1>4, <1>5, <1>6 DEF WriterOK

\* A step of a writer's call that changes nothing else.
LEMMA QuietStep ==
    ASSUME IInv, NEW w \in Writer, call' \in [Writer -> CallRecord],
           \A v \in Writer : v # w => call'[v] = call[v],
           \/ call'[w].dir = call[w].dir
           \/ call[w].dir = NoDirectory /\ call'[w].dir = entry[w],
           UNCHANGED <<current, rooted, entry, files, touched>>, WriterOK(w)'
    PROVE  IInv'
<1>1. \A v \in Writer : WriterOK(v)'
  <2> TAKE v \in Writer
  <2>1. CASE v # w
    BY <2>1, OthersRest, Distinct DEF IInv, Shaped
  <2> QED
    BY <2>1
<1>2. Shaped'
  BY DEF IInv, Shaped
<1>3. ForeignKept'
  <2>1. Foreign # NoDirectory /\ w \in Name
    BY Distinct DEF Name
  <2>2. \A v \in Writer : call'[v].dir # Foreign => call[v].dir # Foreign
    BY <2>1
  <2>3. Foreign \notin touched => \A v \in Writer : call'[v].dir # Foreign
    BY <2>1 DEF IInv, ForeignKept
  <2> QED
    BY <2>2, <2>3 DEF IInv, ForeignKept
<1> QED
  BY <1>1, <1>2, <1>3 DEF IInv

LEMMA OwnFiles ==
    ASSUME IInv, NEW w \in Writer, w \notin touched, call[w].owns # "nothing",
           call[w].pc \in {"taken", "writing", "filling", "sealed", "published", "reading",
                           "rebinding", "confirmed", "failed"}
    PROVE  DOMAIN files[w] \subseteq {Files(w)[i] : i \in DOMAIN Files(w)}
<1>1. Filled(w) /\ call[w] \in CallRecord
  BY DEF IInv, WriterOK, Shaped
<1>2. Len(Files(w)) \in Nat /\ DOMAIN Files(w) = 1..Len(Files(w)) /\ call[w].next \in Nat
  BY <1>1, PacketFiles DEF CallRecord
<1>3. CASE call[w].pc \in {"writing", "filling"}
  BY <1>1, <1>2, <1>3 DEF Filled, FirstFiles
<1>4. CASE call[w].pc \in {"taken", "failed"}
  BY <1>1, <1>4 DEF Filled, Empty
<1>5. CASE call[w].pc \in {"sealed", "published", "reading", "rebinding", "confirmed"}
  BY <1>1, <1>5 DEF Filled, Whole
<1> QED
  BY <1>3, <1>4, <1>5

\* An error, wherever it may occur.
LEMMA FailsOK ==
    ASSUME IInv, NEW w \in Writer, Fails(w),
           call[w].pc \in {"called", "prepared", "taken", "writing", "filling", "sealed",
                           "published", "reading", "rebinding", "confirmed"}
    PROVE  IInv'
<1>1. /\ call' \in [Writer -> CallRecord]
      /\ \A v \in Writer : v # w => call'[v] = call[v]
      /\ call[w].owns = "nothing" =>
             call'[w] = [Idle EXCEPT !.pc = "refused", !.dir = call[w].dir]
      /\ call[w].owns # "nothing" => call'[w] = [call[w] EXCEPT !.pc = "failed", !.next = 1]
      /\ UNCHANGED <<current, rooted, entry, files, touched>>
  BY FailsCalls DEF IInv
<1>2. WriterOK(w) /\ call[w] \in CallRecord
  BY DEF IInv, Shaped
<1>3. CASE call[w].owns = "nothing"
  <2>1. /\ call'[w].pc = "refused" /\ call'[w].owns = "nothing" /\ call'[w].via = "none"
        /\ call'[w].base = 0 /\ call'[w].dir = call[w].dir
    BY <1>1, <1>3, IdleIs DEF CallRecord
  <2>2. Ownership(w)' /\ NotMade(w)' /\ Filled(w)' /\ Judged(w)'
    BY <2>1 DEF Ownership, NotMade, Filled, Judged
  <2>3. Located(w)'
    BY <1>1, <1>2, <1>3, <2>1 DEF WriterOK, NotMade, Located
  <2> QED
    BY <1>1, <2>1, <2>2, <2>3, QuietStep DEF WriterOK
<1>4. CASE call[w].owns # "nothing"
  <2>1. /\ call'[w].pc = "failed" /\ call'[w].owns = call[w].owns
        /\ call'[w].via = call[w].via /\ call'[w].base = call[w].base
        /\ call'[w].kind = call[w].kind /\ call'[w].dir = call[w].dir
    BY <1>1, <1>2, <1>4 DEF CallRecord
  <2>2. Ownership(w)' /\ NotMade(w)' /\ Judged(w)'
    BY <1>1, <1>2, <1>4, <2>1 DEF WriterOK, Ownership, NotMade, Judged
  <2>3. Located(w)'
    BY <1>1, <1>2, <1>4, <2>1 DEF WriterOK, Located
  <2>4. Filled(w)'
    <3>1. w \notin touched => DOMAIN files[w] \subseteq {Files(w)[i] : i \in DOMAIN Files(w)}
      <4>1. \/ call[w].pc \in {"writing", "filling", "sealed", "published", "reading"}
            \/ call[w].pc \in {"taken", "rebinding", "confirmed"}
        BY <1>2, <1>4 DEF WriterOK, Ownership
      <4> QED
        BY <1>4, <4>1, OwnFiles
    <3>2. Files(w)' = Files(w)
      BY <2>1 DEF Files
    <3> QED
      BY <1>1, <2>1, <3>1, <3>2 DEF Filled
  <2> QED
    BY <1>1, <2>1, <2>2, <2>3, <2>4, QuietStep DEF WriterOK
<1> QED
  BY <1>3, <1>4

\* The steps that change nothing but the writer's own call.
LEMMA BeginStep == ASSUME IInv, NEW w \in Writer, Begin(w) PROVE IInv'
<1>1. WriterOK(w) /\ call[w] \in CallRecord /\ call[w].pc = "idle" /\ current \in 0..MaxGeneration
  BY DEF IInv, Shaped, Begin
<1>2. PICK kind \in {"review", "pilot"} :
          call' = [call EXCEPT ![w].pc = "called", ![w].kind = kind, ![w].base = current]
  BY DEF Begin
<1>3. call'[w] = [call[w] EXCEPT !.pc = "called", !.kind = kind, !.base = current]
  BY <1>2 DEF IInv, Shaped
<1>4. call'[w] \in CallRecord
  BY <1>1, <1>3 DEF CallRecord, Places
<1>5. /\ call' \in [Writer -> CallRecord]
      /\ \A v \in Writer : v # w => call'[v] = call[v]
  BY <1>2, <1>3, <1>4 DEF IInv, Shaped
<1>6. /\ call'[w].pc = "called" /\ call'[w].base = current
      /\ call'[w].owns = call[w].owns /\ call'[w].via = call[w].via
      /\ call'[w].dir = call[w].dir
  BY <1>1, <1>3 DEF CallRecord
<1>7. UNCHANGED <<current, rooted, entry, files, touched>>
  BY DEF Begin, OnlyCall
<1>8. Ownership(w)' /\ NotMade(w)' /\ Filled(w)'
  BY <1>1, <1>6, <1>7 DEF WriterOK, Ownership, NotMade, Filled
<1>9. Located(w)' /\ Judged(w)'
  BY <1>1, <1>6, <1>7 DEF WriterOK, Ownership, Located, Judged
<1> QED
  BY <1>5, <1>6, <1>7, <1>8, <1>9, QuietStep DEF WriterOK

\* A writer goes on with what it has.
LEMMA GoesOn ==
    ASSUME IInv, NEW w \in Writer, NEW to \in Places \ {"refused", "dead"}, Goes(w, to), OnlyCall
    PROVE  /\ call' \in [Writer -> CallRecord]
           /\ \A v \in Writer : v # w => call'[v] = call[v]
           /\ UNCHANGED <<current, rooted, entry, files, touched>>
           /\ call'[w] \in CallRecord /\ call'[w].pc = to /\ call'[w].next = 1
           /\ call'[w].owns = call[w].owns /\ call'[w].via = call[w].via
           /\ call'[w].base = call[w].base /\ call'[w].at = call[w].at
           /\ call'[w].seen = call[w].seen /\ call'[w].opened = call[w].opened
           /\ call'[w].names = call[w].names /\ call'[w].kind = call[w].kind
           /\ call'[w].dir = call[w].dir
           /\ Files(w)' = Files(w) /\ Manifest(w)' = Manifest(w) /\ Whole(w)' = Whole(w)
<1>1. /\ call' \in [Writer -> CallRecord]
      /\ \A v \in Writer : v # w => call'[v] = call[v]
      /\ call'[w] = [call[w] EXCEPT !.pc = to, !.next = 1]
  BY GoesCalls DEF IInv
<1>2. call[w] \in CallRecord
  BY DEF IInv, Shaped
<1>3. /\ call'[w] \in CallRecord /\ call'[w].pc = to /\ call'[w].next = 1
      /\ call'[w].owns = call[w].owns /\ call'[w].via = call[w].via
      /\ call'[w].base = call[w].base /\ call'[w].at = call[w].at
      /\ call'[w].seen = call[w].seen /\ call'[w].opened = call[w].opened
      /\ call'[w].names = call[w].names /\ call'[w].kind = call[w].kind
      /\ call'[w].dir = call[w].dir
  BY <1>1, <1>2 DEF CallRecord
<1>4. Files(w)' = Files(w) /\ Manifest(w)' = Manifest(w) /\ Whole(w)' = Whole(w)
  BY <1>3 DEF Files, Manifest, Whole
<1> QED
  BY <1>1, <1>3, <1>4 DEF OnlyCall

LEMMA PrepareStep == ASSUME IInv, NEW w \in Writer, Prepare(w) PROVE IInv'
<1>1. WriterOK(w) /\ call[w].pc = "called"
  BY DEF IInv, Prepare
<1>2. CASE Fails(w)
  BY <1>1, <1>2, FailsOK
<1>3. CASE Goes(w, "prepared") /\ OnlyCall
  <2>1. "prepared" \in Places \ {"refused", "dead"}
    BY DEF Places
  <2>2. WriterOK(w)'
    BY <1>1, <1>3, <2>1, GoesOn
       DEF WriterOK, Ownership, NotMade, Located, Filled, Judged
  <2> QED
    BY <1>3, <2>1, <2>2, GoesOn, QuietStep
<1> QED
  BY <1>2, <1>3 DEF Prepare

\* A directory is opened for reading.
LEMMA OpenOK ==
    ASSUME IInv, NEW w \in Writer, NEW via \in {"found", "collision", "own"},
           NEW d \in Directory, Open(w, via, d), OnlyCall,
           call[w].pc \in {"prepared", "sealed", "published"},
           via = "own" <=> call[w].pc = "published"
    PROVE  IInv'
<1>1. WriterOK(w) /\ call[w] \in CallRecord
  BY DEF IInv, Shaped
<1>2. PICK none : none = <<>>
  OBVIOUS
<1>3. none \in ByteSeqs
  BY <1>2 DEF ByteSeqs
<1>4. call'[w] = [call[w] EXCEPT !.pc = "reading", !.via = via, !.opened = d,
                                 !.next = 1, !.seen = none]
  BY <1>2 DEF Open, IInv, Shaped
<1>5. call'[w] \in CallRecord
  <2>1. "reading" \in Places
    BY DEF Places
  <2>2. d \in Directory \cup {NoDirectory} /\ via \in {"none", "found", "collision", "own"}
    OBVIOUS
  <2>3. PICK c : c = [call[w] EXCEPT !.pc = "reading", !.via = via, !.opened = d]
    OBVIOUS
  <2>4. c \in CallRecord
    BY <1>1, <2>1, <2>2, <2>3 DEF CallRecord
  <2>5. call'[w] = [c EXCEPT !.next = 1, !.seen = none]
    BY <1>1, <1>4, <2>3 DEF CallRecord
  <2>6. [c EXCEPT !.next = 1, !.seen = none] \in CallRecord
    BY <1>3, <2>4 DEF CallRecord
  <2> QED
    BY <2>5, <2>6
<1>6. /\ call'[w].pc = "reading" /\ call'[w].via = via /\ call'[w].opened = d
      /\ call'[w].owns = call[w].owns /\ call'[w].dir = call[w].dir
      /\ call'[w].base = call[w].base /\ call'[w].kind = call[w].kind
  BY <1>1, <1>4 DEF CallRecord
<1>7. /\ call' \in [Writer -> CallRecord]
      /\ \A v \in Writer : v # w => call'[v] = call[v]
  BY <1>5 DEF IInv, Shaped, Open
<1>8. UNCHANGED <<current, rooted, entry, files, touched>>
  BY DEF OnlyCall
<1>9. Whole(w)' = Whole(w)
  BY <1>6 DEF Whole, Files, Manifest
<1>10. Ownership(w)'
  BY <1>1, <1>6, Distinct DEF WriterOK, Ownership, Directory
<1>11. NotMade(w)' /\ Located(w)' /\ Judged(w)'
  BY <1>1, <1>6, <1>8 DEF WriterOK, NotMade, Located, Judged
<1>12. Filled(w)'
  BY <1>1, <1>6, <1>8, <1>9 DEF WriterOK, Ownership, Filled
<1> QED
  BY <1>6, <1>7, <1>8, <1>10, <1>11, <1>12, QuietStep DEF WriterOK

LEMMA LookupStep == ASSUME IInv, NEW w \in Writer, Lookup(w) PROVE IInv'
<1>1. WriterOK(w) /\ call[w].pc = "prepared" /\ Packet \in Name
  BY DEF IInv, Lookup, Name
<1>2. CASE Fails(w)
  BY <1>1, <1>2, FailsOK
<1>3. CASE Goes(w, "staging") /\ OnlyCall
  <2>1. "staging" \in Places \ {"refused", "dead"}
    BY DEF Places
  <2>2. WriterOK(w)'
    BY <1>1, <1>3, <2>1, GoesOn
       DEF WriterOK, Ownership, NotMade, Located, Filled, Judged
  <2> QED
    BY <1>3, <2>1, <2>2, GoesOn, QuietStep
<1>4. CASE Open(w, "found", entry[Packet]) /\ OnlyCall /\ entry[Packet] # NoDirectory
  <2>1. entry[Packet] \in Directory
    BY <1>1, <1>4 DEF IInv, Shaped
  <2> QED
    BY <1>1, <1>4, <2>1, OpenOK
<1> QED
  BY <1>2, <1>3, <1>4 DEF Lookup, Bound

LEMMA SealStep == ASSUME IInv, NEW w \in Writer, Seal(w) PROVE IInv'
<1>1. WriterOK(w) /\ call[w].pc = "writing" /\ call[w].next > Len(Files(w))
  BY DEF IInv, Seal
<1>2. CASE Fails(w)
  BY <1>1, <1>2, FailsOK
<1>3. CASE Goes(w, "sealed") /\ OnlyCall
  <2>1. "sealed" \in Places \ {"refused", "dead"}
    BY DEF Places
  <2>2. w \notin touched => files[w] = Whole(w)
    <3>1. SUFFICES ASSUME w \notin touched PROVE files[w] = Whole(w)
      OBVIOUS
    <3>2. DOMAIN Files(w) = 1..Len(Files(w)) /\ Len(Files(w)) \in Nat /\ call[w].next \in Nat
      BY PacketFiles DEF IInv, Shaped, CallRecord
    <3>3. call[w].next - 1 = Len(Files(w))
      BY <1>1, <3>1, <3>2 DEF WriterOK, Filled
    <3> QED
      BY <1>1, <3>1, <3>2, <3>3 DEF WriterOK, Filled, FirstFiles, Whole
  <2>3. Ownership(w)' /\ NotMade(w)' /\ Located(w)' /\ Judged(w)'
    BY <1>1, <1>3, <2>1, GoesOn DEF WriterOK, Ownership, NotMade, Located, Judged
  <2>4. Filled(w)'
    BY <1>1, <1>3, <2>1, <2>2, GoesOn DEF Filled
  <2> QED
    BY <1>3, <2>1, <2>3, <2>4, GoesOn, QuietStep DEF WriterOK
<1> QED
  BY <1>2, <1>3 DEF Seal

LEMMA CheckPublishedStep == ASSUME IInv, NEW w \in Writer, CheckPublished(w) PROVE IInv'
<1>1. call[w].pc = "published"
  BY DEF CheckPublished
<1>2. CASE Fails(w)
  BY <1>1, <1>2, FailsOK
<1>3. CASE Open(w, "own", call[w].dir) /\ OnlyCall
  <2>1. call[w].dir \in Directory
    BY <1>1 DEF IInv, WriterOK, Ownership, Directory
  <2> QED
    BY <1>1, <1>3, <2>1, OpenOK
<1> QED
  BY <1>2, <1>3 DEF CheckPublished

\* Reading and comparing move along the files and keep what is owned.
LEMMA VerifyOK ==
    ASSUME IInv, NEW w \in Writer, NEW c \in CallRecord, call' = [call EXCEPT ![w] = c], OnlyCall,
           call[w].pc \in {"reading", "rebinding"}, c.pc \in {"reading", "rebinding"},
           c.owns = call[w].owns, c.via = call[w].via, c.base = call[w].base,
           c.kind = call[w].kind, c.opened = call[w].opened, c.dir = call[w].dir, Judged(w)'
    PROVE  IInv'
<1>1. WriterOK(w) /\ call'[w] = c
  BY DEF IInv, Shaped
<1>2. call' \in [Writer -> CallRecord] /\ \A v \in Writer : v # w => call'[v] = call[v]
  BY DEF IInv, Shaped
<1>3. UNCHANGED <<current, rooted, entry, files, touched>>
  BY DEF OnlyCall
<1>4. Whole(w)' = Whole(w)
  BY <1>1 DEF Whole, Files, Manifest
<1>5. Ownership(w)' /\ NotMade(w)' /\ Located(w)'
  BY <1>1, <1>3 DEF WriterOK, Ownership, NotMade, Located
<1>6. Filled(w)'
  BY <1>1, <1>3, <1>4 DEF WriterOK, Filled
<1> QED
  BY <1>1, <1>2, <1>3, <1>5, <1>6, QuietStep DEF WriterOK

LEMMA ReadFileStep == ASSUME IInv, NEW w \in Writer, ReadFile(w) PROVE IInv'
<1>1. /\ WriterOK(w) /\ call[w] \in CallRecord /\ call[w].pc = "reading"
      /\ files \in [Directory -> Contents]
  BY DEF IInv, Shaped, ReadFile
<1>2. CASE Fails(w)
  BY <1>1, <1>2, FailsOK
<1>3. CASE ~Fails(w)
  <2> DEFINE f == Files(w)[call[w].next]
             d == call[w].opened
             seen == Append(call[w].seen, files[d][f])
             c == [call[w] EXCEPT !.next = call[w].next + 1, !.seen = seen]
  <2>1. f \in DOMAIN files[d] /\ OnlyCall
    BY <1>3 DEF ReadFile
  <2>2. call' = [call EXCEPT ![w] = c]
    BY <1>3 DEF ReadFile
  <2>3. d \in Directory
    BY <1>1 DEF CallRecord, WriterOK, Ownership
  <2>4. files[d][f] \in Bytes
    BY <1>1, <2>1, <2>3, ContentsHave
  <2>5. seen \in ByteSeqs
    BY <1>1, <2>4, AppendProperties DEF CallRecord, ByteSeqs
  <2> HIDE DEF seen
  <2>6. /\ c \in CallRecord /\ c.pc = call[w].pc /\ c.owns = call[w].owns
        /\ c.via = call[w].via /\ c.base = call[w].base /\ c.kind = call[w].kind
        /\ c.opened = call[w].opened /\ c.dir = call[w].dir
    <3>1. PICK n \in Nat : n = call[w].next + 1
      BY <1>1 DEF CallRecord
    <3>2. c = [call[w] EXCEPT !.next = n, !.seen = seen]
      BY <3>1
    <3> QED
      BY <1>1, <2>5, <3>1, <3>2 DEF CallRecord
  <2> HIDE DEF c
  <2>7. call'[w] = c
    BY <2>2 DEF IInv, Shaped
  <2>8. Judged(w)'
    BY <1>1, <2>1, <2>6, <2>7 DEF OnlyCall, WriterOK, Judged
  <2> QED
    BY <1>1, <2>1, <2>2, <2>6, <2>8, VerifyOK
<1> QED
  BY <1>2, <1>3

LEMMA JudgeStep == ASSUME IInv, NEW w \in Writer, Judge(w) PROVE IInv'
<1>1. /\ WriterOK(w) /\ call[w] \in CallRecord /\ call[w].pc = "reading"
      /\ current \in 0..MaxGeneration
  BY DEF IInv, Shaped, Judge
<1>2. CASE Fails(w)
  BY <1>1, <1>2, FailsOK
<1>3. CASE ~Fails(w)
  <2> DEFINE c == [call[w] EXCEPT !.pc = "rebinding", !.next = 1, !.at = current]
  <2>1. /\ call' = [call EXCEPT ![w] = c] /\ OnlyCall
        /\ Genuine(w, call[w].seen) /\ call[w].seen[1] = Manifest(w)
    BY <1>3 DEF Judge
  <2>2. "rebinding" \in Places
    BY DEF Places
  <2>3. /\ c \in CallRecord /\ c.pc = "rebinding" /\ c.owns = call[w].owns
        /\ c.via = call[w].via /\ c.base = call[w].base /\ c.kind = call[w].kind
        /\ c.opened = call[w].opened /\ c.seen = call[w].seen /\ c.at = current
        /\ c.dir = call[w].dir
    BY <1>1, <2>2 DEF CallRecord
  <2> HIDE DEF c
  <2>4. call'[w] = c
    BY <2>1 DEF IInv, Shaped
  <2>5. Files(w)' = Files(w) /\ Manifest(w)' = Manifest(w)
    BY <2>3, <2>4 DEF Files, Manifest
  <2>6. call[w].seen = [i \in DOMAIN Files(w) |-> Manifest(w)]
    <3>1. PICK m \in Packets : call[w].seen = [i \in DOMAIN Files(w) |-> m]
      BY <2>1 DEF Genuine, GenuinePilot, GenuineReview, OfOnePacket
    <3>2. 1 \in DOMAIN Files(w)
      BY <1>1, PacketFiles DEF CallRecord
    <3>3. m = Manifest(w)
      BY <2>1, <3>1, <3>2
    <3> QED
      BY <3>1, <3>3
  <2>7. Judged(w)'
    BY <1>1, <2>1, <2>3, <2>4, <2>5, <2>6, Distinct DEF OnlyCall, WriterOK, Judged
  <2> QED
    BY <1>1, <2>1, <2>3, <2>7, VerifyOK
<1> QED
  BY <1>2, <1>3

LEMMA RebindFileStep == ASSUME IInv, NEW w \in Writer, RebindFile(w) PROVE IInv'
<1>1. WriterOK(w) /\ call[w] \in CallRecord /\ call[w].pc = "rebinding"
  BY DEF IInv, Shaped, RebindFile
<1>2. CASE Fails(w)
  BY <1>1, <1>2, FailsOK
<1>3. CASE ~Fails(w)
  <2> DEFINE c == [call[w] EXCEPT !.next = call[w].next + 1]
  <2>1. call' = [call EXCEPT ![w] = c] /\ OnlyCall
    BY <1>3 DEF RebindFile
  <2>2. /\ c \in CallRecord /\ c.pc = "rebinding" /\ c.owns = call[w].owns
        /\ c.via = call[w].via /\ c.base = call[w].base /\ c.kind = call[w].kind
        /\ c.opened = call[w].opened /\ c.seen = call[w].seen /\ c.at = call[w].at
        /\ c.dir = call[w].dir
    BY <1>1 DEF CallRecord
  <2> HIDE DEF c
  <2>3. call'[w] = c
    BY <2>1 DEF IInv, Shaped
  <2>4. Files(w)' = Files(w) /\ Manifest(w)' = Manifest(w)
    BY <2>2, <2>3 DEF Files, Manifest
  <2>5. Judged(w)'
    BY <1>1, <2>1, <2>2, <2>3, <2>4 DEF OnlyCall, WriterOK, Judged
  <2> QED
    BY <1>1, <2>1, <2>2, <2>5, VerifyOK
<1> QED
  BY <1>2, <1>3

LEMMA ConfirmStep == ASSUME IInv, NEW w \in Writer, Confirm(w) PROVE IInv'
<1>1. WriterOK(w) /\ call[w].pc = "rebinding"
  BY DEF IInv, Confirm
<1>2. CASE Fails(w)
  BY <1>1, <1>2, FailsOK
<1>3. CASE Goes(w, "confirmed") /\ OnlyCall
  <2>1. "confirmed" \in Places \ {"refused", "dead"}
    BY DEF Places
  <2>2. Ownership(w)' /\ NotMade(w)' /\ Located(w)'
    BY <1>1, <1>3, <2>1, GoesOn DEF WriterOK, Ownership, NotMade, Located
  <2>3. Filled(w)' /\ Judged(w)'
    BY <1>1, <1>3, <2>1, GoesOn DEF WriterOK, Filled, Judged
  <2> QED
    BY <1>3, <2>1, <2>2, <2>3, GoesOn, QuietStep DEF WriterOK
<1> QED
  BY <1>2, <1>3 DEF Confirm

LEMMA AcceptStep == ASSUME IInv, NEW w \in Writer, Accept(w) PROVE IInv'
<1> DEFINE to == IF call[w].owns = "staging" THEN "cleaning" ELSE "accepted"
<1>1. /\ WriterOK(w) /\ call[w] \in CallRecord /\ call[w].pc = "confirmed"
      /\ current \in 0..MaxGeneration
  BY DEF IInv, Shaped, Accept
<1>2. CASE Fails(w)
  BY <1>1, <1>2, FailsOK
<1>3. CASE ~Fails(w)
  <2>1. Goes(w, to) /\ OnlyCall /\ Current(w)
    BY <1>3 DEF Accept
  <2>2. to \in Places \ {"refused", "dead"}
    BY DEF Places
  <2>3. current = call[w].base
    BY <2>1 DEF Current, LiveAnchors, SourceCurrent
  <2>4. /\ UNCHANGED <<current, rooted, entry, files, touched>>
        /\ call'[w].pc = to /\ call'[w].owns = call[w].owns /\ call'[w].via = call[w].via
        /\ call'[w].base = call[w].base /\ call'[w].at = call[w].at
        /\ call'[w].seen = call[w].seen /\ call'[w].opened = call[w].opened
        /\ call'[w].dir = call[w].dir
        /\ Files(w)' = Files(w) /\ Manifest(w)' = Manifest(w) /\ Whole(w)' = Whole(w)
    BY <2>1, <2>2, GoesOn
  <2>5. Ownership(w)' /\ NotMade(w)'
    BY <1>1, <2>4 DEF WriterOK, Ownership, NotMade
  <2>6. Located(w)'
    BY <1>1, <2>4 DEF WriterOK, Located
  <2>7. Filled(w)'
    BY <1>1, <2>4 DEF WriterOK, Filled
  <2>8. Judged(w)'
    BY <1>1, <2>3, <2>4, Distinct DEF WriterOK, Judged, CallRecord
  <2> QED
    BY <2>1, <2>2, <2>5, <2>6, <2>7, <2>8, GoesOn, QuietStep DEF WriterOK
<1> QED
  BY <1>2, <1>3

\* The call ends with an error; what is not touched is not there any more.
LEMMA Refused ==
    ASSUME IInv, NEW w \in Writer, NEW to \in {"refused", "dead"}, Goes(w, to)
    PROVE  /\ call' \in [Writer -> CallRecord]
           /\ \A v \in Writer : v # w => call'[v] = call[v]
           /\ call'[w].pc = to /\ Ownership(w)' /\ NotMade(w)' /\ Filled(w)' /\ Judged(w)'
           /\ call'[w].owns = "nothing" /\ call'[w].dir = call[w].dir
<1>1. to \in Places
  BY DEF Places
<1>2. /\ call' \in [Writer -> CallRecord]
      /\ \A v \in Writer : v # w => call'[v] = call[v]
      /\ call'[w] = [Idle EXCEPT !.pc = to, !.dir = call[w].dir]
  BY <1>1, GoesCalls DEF IInv
<1>3. /\ call'[w].pc = to /\ call'[w].owns = "nothing" /\ call'[w].via = "none"
      /\ call'[w].dir = call[w].dir
  <2>1. call[w] \in CallRecord
    BY DEF IInv, Shaped
  <2> QED
    BY <1>2, <2>1, IdleIs DEF CallRecord
<1> QED
  BY <1>2, <1>3 DEF Ownership, NotMade, Filled, Judged

LEMMA DieStep == ASSUME IInv, NEW w \in Writer, Die(w) PROVE IInv'
<1>1. Goes(w, "dead") /\ UNCHANGED <<current, rooted, entry, files, touched>>
  BY DEF Die, OnlyCall
<1>2. /\ call' \in [Writer -> CallRecord]
      /\ \A v \in Writer : v # w => call'[v] = call[v]
      /\ call'[w].pc = "dead" /\ Ownership(w)' /\ NotMade(w)' /\ Filled(w)' /\ Judged(w)'
      /\ call'[w].owns = "nothing" /\ call'[w].dir = call[w].dir
  BY <1>1, Refused
<1>3. Located(w)'
  BY <1>1, <1>2 DEF IInv, WriterOK, Located
<1> QED
  BY <1>1, <1>2, <1>3, QuietStep DEF WriterOK

LEMMA InspectStep == ASSUME IInv, NEW w \in Writer, Inspect(w) PROVE IInv'
<1>1. /\ WriterOK(w) /\ call[w] \in CallRecord /\ call[w].pc \in {"failed", "cleaning"}
      /\ files \in [Directory -> Contents] /\ w \in Directory
      /\ UNCHANGED <<current, rooted, entry, files, touched>>
  BY DEF IInv, Shaped, Inspect, Directory, OnlyCall
<1>2. CASE RemovableAt(w, Place(w))
  <2> DEFINE to == IF call[w].pc = "failed" THEN "unlinking" ELSE "emptying"
             d == call[w].dir
             c == [call[w] EXCEPT !.pc = to, !.opened = d, !.names = DOMAIN files[d]]
  <2>1. entry[Place(w)] = d
    BY <1>2 DEF RemovableAt, Bound
  <2>2. call' = [call EXCEPT ![w] = c]
    BY <1>2, <2>1 DEF Inspect
  <2>3. d \in Directory /\ (w \notin touched => d = w)
    BY <1>1 DEF WriterOK, Ownership, Located, Directory
  <2>4. DOMAIN files[d] \in NameSets /\ to \in Places
    BY <1>1, <2>3, ContentsHave DEF NameSets, Places
  <2>5. /\ c \in CallRecord /\ c.pc = to /\ c.owns = call[w].owns
        /\ c.via = call[w].via /\ c.base = call[w].base /\ c.kind = call[w].kind
        /\ c.opened = d /\ c.seen = call[w].seen /\ c.at = call[w].at
        /\ c.dir = d /\ c.names = DOMAIN files[d]
    BY <1>1, <2>3, <2>4 DEF CallRecord
  <2> HIDE DEF c
  <2>6. call'[w] = c /\ call' \in [Writer -> CallRecord]
        /\ \A v \in Writer : v # w => call'[v] = call[v]
    BY <2>2, <2>5 DEF IInv, Shaped
  <2>7. Files(w)' = Files(w) /\ Manifest(w)' = Manifest(w)
    BY <2>5, <2>6 DEF Files, Manifest
  <2>8. Ownership(w)' /\ NotMade(w)' /\ Located(w)'
    BY <1>1, <2>5, <2>6 DEF WriterOK, Ownership, NotMade, Located
  <2>9. Filled(w)' /\ Judged(w)'
    BY <1>1, <2>3, <2>5, <2>6, <2>7 DEF WriterOK, Filled, Judged
  <2> QED
    BY <1>1, <2>5, <2>6, <2>8, <2>9, QuietStep DEF WriterOK
<1>3. CASE ~RemovableAt(w, Place(w))
  <2>1. w \in touched
    <3>1. SUFFICES ASSUME w \notin touched PROVE RemovableAt(w, Place(w))
      BY <1>3
    <3>2. entry[Place(w)] = w /\ call[w].dir = w
      BY <1>1, <3>1 DEF WriterOK, Ownership, Located, Place, CallRecord
    <3>3. DOMAIN files[w] \subseteq {Files(w)[i] : i \in DOMAIN Files(w)}
      BY <1>1, <3>1 DEF WriterOK, Ownership, Filled, Whole
    <3> QED
      BY <3>2, <3>3 DEF RemovableAt, Bound
  <2>2. Goes(w, Answer(w))
    BY <1>3 DEF Inspect
  <2>3. CASE call[w].pc = "failed"
    <3>1. Goes(w, "refused")
      BY <2>2, <2>3 DEF Answer
    <3>2. Located(w)'
      BY <1>1, <2>1 DEF Located
    <3> QED
      BY <1>1, <3>1, <3>2, Refused, QuietStep DEF WriterOK
  <2>4. CASE call[w].pc = "cleaning"
    <3>1. Goes(w, "accepted") /\ "accepted" \in Places \ {"refused", "dead"} /\ OnlyCall
      BY <1>1, <2>2, <2>4 DEF Answer, Places, OnlyCall
    <3>2. Ownership(w)' /\ NotMade(w)' /\ Located(w)'
      BY <1>1, <2>1, <2>4, <3>1, GoesOn DEF WriterOK, Ownership, NotMade, Located
    <3>3. Filled(w)' /\ Judged(w)'
      BY <1>1, <2>1, <2>4, <3>1, GoesOn DEF WriterOK, Filled, Judged
    <3> QED
      BY <3>1, <3>2, <3>3, GoesOn, QuietStep DEF WriterOK
  <2> QED
    BY <1>1, <2>3, <2>4
<1> QED
  BY <1>2, <1>3

\* A step of a writer that changes its own directory or its own names as well.
LEMMA OwnStep ==
    ASSUME IInv, NEW w \in Writer, WriterOK(w)',
           call' \in [Writer -> CallRecord],
           \A v \in Writer : v # w => call'[v] = call[v],
           entry' \in [Name -> Directory \cup {NoDirectory}],
           entry'[w] \in {NoDirectory, w, Foreign},
           \A v \in Writer : v # w => entry'[v] = entry[v],
           \A v \in Writer : v # w => \A n \in Name : entry'[n] = v <=> entry[n] = v,
           call'[w].dir = call[w].dir,
           call[w].dir # Foreign =>
               \A n \in Name : entry[n] = Foreign => \E m \in Name : entry'[m] = Foreign,
           \A n \in Name : entry'[n] = Foreign => \E m \in Name : entry[m] = Foreign,
           files' \in [Directory -> Contents],
           \A v \in Writer : v # w => files'[v] = files[v],
           call[w].dir # Foreign => files'[Foreign] = files[Foreign],
           current' = current, touched' = touched
    PROVE  IInv'
<1>1. Shaped'
  <2>1. \A v \in Writer : entry'[v] \in {NoDirectory, v, Foreign}
    BY DEF IInv, Shaped
  <2> QED
    BY <2>1 DEF IInv, Shaped
<1>2. ForeignKept'
  <2>1. \A v \in Writer : call'[v].dir = call[v].dir
    OBVIOUS
  <2>2. CASE call[w].dir = Foreign
    BY <2>1, <2>2 DEF IInv, ForeignKept
  <2>3. CASE call[w].dir # Foreign
    BY <2>1, <2>3 DEF IInv, ForeignKept
  <2> QED
    BY <2>2, <2>3
<1>3. \A v \in Writer : WriterOK(v)'
  <2> TAKE v \in Writer
  <2>1. CASE v # w
    BY <2>1, OthersRest, Distinct DEF IInv, Shaped, Directory
  <2> QED
    BY <2>1
<1> QED
  BY <1>1, <1>2, <1>3 DEF IInv

\* What is known of a writer and its surroundings before such a step.
Around(w) ==
    /\ w \in Name /\ Packet \in Name /\ w # Packet /\ w \in Directory
    /\ w # Foreign /\ w # NoDirectory /\ Foreign # NoDirectory
    /\ \A v \in Writer : v # Packet /\ v # Foreign /\ v # NoDirectory
    /\ entry \in [Name -> Directory \cup {NoDirectory}]
    /\ entry[w] \in {NoDirectory, w, Foreign}
    /\ files \in [Directory -> Contents]
    /\ call \in [Writer -> CallRecord] /\ call[w] \in CallRecord
    /\ Ownership(w) /\ NotMade(w) /\ Located(w) /\ Filled(w) /\ Judged(w)

LEMMA Surroundings == ASSUME IInv, NEW w \in Writer PROVE Around(w)
  BY Distinct DEF IInv, Shaped, Name, Directory, WriterOK, Around

\* The directory that a writer takes for its own is its own, or the foreign one.
LEMMA OwnDirectory ==
    ASSUME NEW w \in Writer, Around(w), call[w].owns # "nothing"
    PROVE  /\ call[w].dir \in Directory /\ call[w].dir \in {w, Foreign}
           /\ w \notin touched => call[w].dir = w
  BY DEF Around, Ownership, Located, Directory

\* What a writer does to the files of that directory.
LEMMA OwnContents ==
    ASSUME NEW w \in Writer, Around(w), NEW d \in {w, Foreign}, NEW c \in Contents,
           files' = [files EXCEPT ![d] = c]
    PROVE  /\ files' \in [Directory -> Contents] /\ files'[d] = c
           /\ \A v \in Writer : v # w => files'[v] = files[v]
           /\ d # Foreign => files'[Foreign] = files[Foreign]
  BY DEF Around, Directory

LEMMA MakeStagingStep == ASSUME IInv, NEW w \in Writer, MakeStaging(w) PROVE IInv'
<1>0. Around(w)
  BY Surroundings
<1> USE <1>0 DEF Around
<1>1. /\ call[w].pc = "staging" /\ call[w].owns = "nothing"
      /\ entry' = [entry EXCEPT ![w] = w] /\ UNCHANGED <<current, rooted, files, touched>>
      /\ Goes(w, "made")
  BY DEF MakeStaging, Ownership
<1>2. /\ entry[w] = NoDirectory /\ files[w] = Empty /\ \A n \in Name : entry[n] # w
      /\ call[w].dir = NoDirectory
  BY <1>1 DEF NotMade, Ownership
<1>3. "made" \in Places
  BY DEF Places
<1>4. /\ call' \in [Writer -> CallRecord]
      /\ \A v \in Writer : v # w => call'[v] = call[v]
      /\ call'[w] = [call[w] EXCEPT !.pc = "made", !.next = 1]
  BY <1>1, <1>3, GoesCalls DEF IInv
<1>5. /\ call'[w].pc = "made" /\ call'[w].owns = "nothing"
      /\ call'[w].via = call[w].via /\ call'[w].base = call[w].base
      /\ call'[w].kind = call[w].kind /\ call'[w].dir = call[w].dir
  <2> HIDE <1>0
  <2>1. call[w] \in CallRecord
    BY DEF IInv, Shaped
  <2> QED
    BY <1>1, <1>4, <2>1 DEF CallRecord
<1>6. Ownership(w)' /\ NotMade(w)' /\ Judged(w)'
  BY <1>1, <1>2, <1>5 DEF Ownership, NotMade, Judged
<1>7. Located(w)' /\ Filled(w)'
  BY <1>1, <1>2, <1>5 DEF Located, Filled
<1>8. /\ entry' \in [Name -> Directory \cup {NoDirectory}] /\ entry'[w] = w
      /\ \A v \in Writer : v # w => entry'[v] = entry[v]
      /\ \A v \in Writer : v # w => \A n \in Name : entry'[n] = v <=> entry[n] = v
      /\ \A n \in Name : entry[n] = Foreign => \E m \in Name : entry'[m] = Foreign
      /\ \A n \in Name : entry'[n] = Foreign => \E m \in Name : entry[m] = Foreign
  <2>1. \A n \in Name : entry'[n] = IF n = w THEN w ELSE entry[n]
    BY <1>1
  <2> QED
    BY <1>1, <1>2, <2>1, Distinct DEF Name
<1> QED
  BY <1>1, <1>4, <1>5, <1>6, <1>7, <1>8, OwnStep DEF WriterOK

\* Whatever has the staging name is taken; if no other program has touched the
\* directory that was made, it is that one.
LEMMA TakeIdentityStep == ASSUME IInv, NEW w \in Writer, TakeIdentity(w) PROVE IInv'
<1>0. Around(w)
  BY Surroundings
<1> USE <1>0 DEF Around
<1>1. call[w].pc = "made" /\ call[w].owns = "nothing" /\ call[w].dir = NoDirectory
  BY DEF TakeIdentity, Ownership
<1>2. CASE entry[w] = NoDirectory
  <2>1. /\ Goes(w, "refused") /\ UNCHANGED <<current, rooted, entry, files, touched>>
        /\ w \in touched
    BY <1>1, <1>2 DEF TakeIdentity, Bound, Fails, OnlyCall, Located
  <2>2. /\ call' \in [Writer -> CallRecord]
        /\ \A v \in Writer : v # w => call'[v] = call[v]
        /\ call'[w].dir = call[w].dir
        /\ Ownership(w)' /\ NotMade(w)' /\ Filled(w)' /\ Judged(w)'
    BY <2>1, Refused
  <2>3. Located(w)'
    BY <2>1 DEF Located
  <2> QED
    BY <2>1, <2>2, <2>3, QuietStep DEF WriterOK
<1>3. CASE entry[w] # NoDirectory
  <2>1. /\ UNCHANGED <<current, rooted, entry, files, touched>>
        /\ call' = [call EXCEPT ![w].pc = "taken", ![w].dir = entry[w], ![w].owns = "staging"]
    BY <1>3 DEF TakeIdentity, Bound, OnlyCall
  <2>2. call'[w] = [call[w] EXCEPT !.pc = "taken", !.dir = entry[w], !.owns = "staging"]
    BY <2>1
  <2>3. "taken" \in Places /\ entry[w] \in Directory \cup {NoDirectory}
    BY DEF Places
  <2>4. /\ call'[w] \in CallRecord /\ call'[w].pc = "taken" /\ call'[w].owns = "staging"
        /\ call'[w].via = call[w].via /\ call'[w].base = call[w].base
        /\ call'[w].kind = call[w].kind /\ call'[w].dir = entry[w]
    <3> HIDE <1>0
    <3>1. call[w] \in CallRecord
      BY DEF IInv, Shaped
    <3> QED
      BY <2>2, <2>3, <3>1 DEF CallRecord
  <2>5. call' \in [Writer -> CallRecord] /\ \A v \in Writer : v # w => call'[v] = call[v]
    BY <2>1, <2>4
  <2>6. Ownership(w)' /\ NotMade(w)' /\ Judged(w)'
    BY <1>1, <1>3, <2>1, <2>4 DEF Ownership, NotMade, Judged
  <2>7. Located(w)' /\ Filled(w)'
    BY <1>1, <2>1, <2>4 DEF Located, Filled
  <2> QED
    BY <1>1, <2>1, <2>4, <2>5, <2>6, <2>7, QuietStep DEF WriterOK
<1> QED
  BY <1>2, <1>3

LEMMA OpenStagingStep == ASSUME IInv, NEW w \in Writer, OpenStaging(w) PROVE IInv'
<1>1. WriterOK(w) /\ call[w].pc = "taken"
  BY DEF IInv, OpenStaging
<1>2. CASE Fails(w)
  BY <1>1, <1>2, FailsOK
<1>3. CASE Goes(w, "writing") /\ OnlyCall
  <2>1. "writing" \in Places \ {"refused", "dead"}
    BY DEF Places
  <2>2. /\ call'[w].next = 1 /\ call'[w].pc = "writing" /\ files' = files
        /\ touched' = touched /\ Files(w)' = Files(w)
    BY <1>3, <2>1, GoesOn
  <2>3. Ownership(w)' /\ NotMade(w)' /\ Located(w)' /\ Judged(w)'
    BY <1>1, <1>3, <2>1, GoesOn DEF WriterOK, Ownership, NotMade, Located, Judged
  <2>4. Filled(w)'
    <3>1. Len(Files(w)) > 0 /\ Len(Files(w)) \in Nat
      BY PacketFiles DEF IInv, Shaped, CallRecord
    <3>2. FirstFiles(w, 0)' = {}
      BY DEF FirstFiles
    <3>3. w \notin touched => files'[w] = [f \in FirstFiles(w, 0) |-> Manifest(w)]'
      BY <1>1, <2>2, <3>2 DEF WriterOK, Filled, Empty
    <3> QED
      BY <2>2, <3>1, <3>3 DEF Filled
  <2> QED
    BY <1>3, <2>1, <2>3, <2>4, GoesOn, QuietStep DEF WriterOK
<1> QED
  BY <1>2, <1>3 DEF OpenStaging

LEMMA CreateFileStep == ASSUME IInv, NEW w \in Writer, CreateFile(w) PROVE IInv'
<1>0. Around(w)
  BY Surroundings
<1> USE <1>0 DEF Around
<1> DEFINE f == Files(w)[call[w].next]
           d == call[w].dir
<1>1. /\ call[w].pc = "writing" /\ call[w].owns = "staging" /\ call[w].next <= Len(Files(w))
      /\ 1 <= call[w].next /\ d \in Directory /\ d \in {w, Foreign}
      /\ w \notin touched => d = w
  <2>1. /\ call[w].pc = "writing" /\ call[w].owns = "staging" /\ call[w].next <= Len(Files(w))
        /\ 1 <= call[w].next
    BY DEF CreateFile, Ownership
  <2> QED
    BY <2>1, OwnDirectory
<1>2. CASE Fails(w)
  BY <1>1, <1>2, FailsOK
<1>3. CASE ~Fails(w)
  <2> DEFINE now == [g \in DOMAIN files[d] \cup {f} |-> IF g = f THEN Partial ELSE files[d][g]]
  <2>1. /\ f \notin DOMAIN files[d] /\ UNCHANGED <<current, rooted, entry, touched>>
        /\ files' = [files EXCEPT ![d] = now]
        /\ call' = [call EXCEPT ![w].pc = "filling"]
    BY <1>3 DEF CreateFile
  <2>2. w \notin touched => files'[w] = now
    BY <1>1, <2>1
  <2>3. "filling" \in Places
    BY DEF Places
  <2>4. call'[w] = [call[w] EXCEPT !.pc = "filling"]
    BY <2>1
  <2>5. /\ call'[w] \in CallRecord /\ call'[w].pc = "filling" /\ call'[w].owns = call[w].owns
        /\ call'[w].via = call[w].via /\ call'[w].base = call[w].base
        /\ call'[w].kind = call[w].kind /\ call'[w].next = call[w].next
        /\ call'[w].dir = d
    BY <2>3, <2>4 DEF CallRecord
  <2>6. call' \in [Writer -> CallRecord] /\ \A v \in Writer : v # w => call'[v] = call[v]
    BY <2>1, <2>5
  <2>7. Ownership(w)' /\ NotMade(w)'
    BY <1>1, <2>1, <2>5 DEF Ownership, NotMade
  <2>8. Located(w)' /\ Judged(w)'
    BY <1>1, <2>1, <2>5 DEF Located, Judged
  <2>9. /\ Len(Files(w)) \in Nat /\ DOMAIN Files(w) = 1..Len(Files(w))
        /\ \A i \in DOMAIN Files(w) : Files(w)[i] \in File
        /\ call[w].next \in Nat
    BY PacketFiles DEF CallRecord
  <2>10. now \in Contents
    <3>1. f \in File
      BY <1>1, <2>9
    <3>2. DOMAIN files[d] \cup {f} \in SUBSET Names
      BY <1>1, <3>1, ContentsHave DEF Names
    <3>3. now \in [DOMAIN files[d] \cup {f} -> Bytes]
      BY <1>1, ContentsHave DEF Bytes
    <3> QED
      BY <3>2, <3>3, ContentsAre
  <2>11. Filled(w)'
    <3>1. SUFFICES ASSUME w \notin touched PROVE Filled(w)'
      BY <2>1 DEF Filled
    <3>2. files[w] = [g \in FirstFiles(w, call[w].next - 1) |-> Manifest(w)]
      BY <1>1, <3>1 DEF Filled
    <3>3. Files(w)' = Files(w) /\ Manifest(w)' = Manifest(w)
      BY <2>5 DEF Files, Manifest
    <3>4. FirstFiles(w, call[w].next) = FirstFiles(w, call[w].next - 1) \cup {f}
      BY <1>1, <2>9 DEF FirstFiles
    <3>5. \A n \in Nat : FirstFiles(w, n)' = FirstFiles(w, n)
      BY <3>3 DEF FirstFiles
    <3>6. call[w].next \in Nat /\ call[w].next - 1 \in Nat
      BY <1>1, <2>9
    <3>7. DOMAIN files'[w] = FirstFiles(w, call[w].next)
      BY <1>1, <2>2, <3>1, <3>2, <3>4
    <3>8. \A g \in FirstFiles(w, call[w].next - 1) : g # f => files'[w][g] = Manifest(w)
      BY <1>1, <2>2, <3>1, <3>2
    <3> QED
      BY <1>1, <2>5, <3>3, <3>5, <3>6, <3>7, <3>8 DEF Filled
  <2>12. /\ files' \in [Directory -> Contents]
         /\ \A v \in Writer : v # w => files'[v] = files[v]
         /\ d # Foreign => files'[Foreign] = files[Foreign]
    BY <1>1, <2>1, <2>10, OwnContents
  <2> QED
    BY <2>1, <2>5, <2>6, <2>7, <2>8, <2>11, <2>12, OwnStep DEF WriterOK
<1> QED
  BY <1>2, <1>3

LEMMA FillFileStep == ASSUME IInv, NEW w \in Writer, FillFile(w) PROVE IInv'
<1>0. Around(w)
  BY Surroundings
<1> USE <1>0 DEF Around
<1> DEFINE f == Files(w)[call[w].next]
           d == call[w].dir
<1>1. /\ call[w].pc = "filling" /\ call[w].owns = "staging" /\ 1 <= call[w].next
      /\ d \in Directory /\ d \in {w, Foreign} /\ (w \notin touched => d = w)
  <2>1. call[w].pc = "filling" /\ call[w].owns = "staging" /\ 1 <= call[w].next
    BY DEF FillFile, Ownership
  <2> QED
    BY <2>1, OwnDirectory
<1>2. CASE Fails(w)
  BY <1>1, <1>2, FailsOK
<1>3. CASE ~Fails(w)
  <2> DEFINE now == [files[d] EXCEPT ![f] = Manifest(w)]
  <2>1. /\ f \in DOMAIN files[d] /\ UNCHANGED <<current, rooted, entry, touched>>
        /\ files' = [files EXCEPT ![d] = now]
        /\ call' = [call EXCEPT ![w].pc = "writing", ![w].next = @ + 1]
    BY <1>3 DEF FillFile
  <2>2. w \notin touched => files'[w] = now
    BY <1>1, <2>1
  <2>3. "writing" \in Places
    BY DEF Places
  <2>4. call'[w] = [call[w] EXCEPT !.pc = "writing", !.next = call[w].next + 1]
    BY <2>1
  <2>5. /\ call'[w] \in CallRecord /\ call'[w].pc = "writing" /\ call'[w].owns = call[w].owns
        /\ call'[w].via = call[w].via /\ call'[w].base = call[w].base
        /\ call'[w].kind = call[w].kind /\ call'[w].next = call[w].next + 1
        /\ call'[w].dir = d
    <3>1. PICK n \in Nat : n = call[w].next + 1
      BY DEF CallRecord
    <3>2. call'[w] = [call[w] EXCEPT !.pc = "writing", !.next = n]
      BY <2>4, <3>1
    <3> QED
      <4> HIDE <1>0
      <4>1. call[w] \in CallRecord
        BY DEF IInv, Shaped
      <4> QED
        BY <2>3, <3>1, <3>2, <4>1 DEF CallRecord
  <2>6. call' \in [Writer -> CallRecord] /\ \A v \in Writer : v # w => call'[v] = call[v]
    BY <2>1, <2>5
  <2>7. /\ Len(Files(w)) \in Nat /\ DOMAIN Files(w) = 1..Len(Files(w))
        /\ \A i \in DOMAIN Files(w) : Files(w)[i] \in File
        /\ call[w].next \in Nat
    BY PacketFiles DEF CallRecord
  <2>8. Ownership(w)'
    BY <1>1, <2>5, <2>7 DEF Ownership
  <2>9. NotMade(w)' /\ Located(w)' /\ Judged(w)'
    BY <1>1, <2>1, <2>5 DEF NotMade, Located, Judged
  <2>10. now \in Contents
    <3>1. Manifest(w) \in Bytes
      BY DEF Manifest, Bytes, Packets, CallRecord
    <3>2. now \in [DOMAIN files[d] -> Bytes] /\ DOMAIN files[d] \in SUBSET Names
      <4>1. /\ files[d] = [g \in DOMAIN files[d] |-> files[d][g]]
            /\ \A g \in DOMAIN files[d] : files[d][g] \in Bytes
            /\ DOMAIN files[d] \in SUBSET Names
        BY <1>1, ContentsHave DEF Contents
      <4> QED
        BY <3>1, <4>1
    <3> QED
      BY <3>2, ContentsAre
  <2>11. Filled(w)'
    <3>1. SUFFICES ASSUME w \notin touched PROVE Filled(w)'
      BY <2>1 DEF Filled
    <3>2. /\ DOMAIN files[w] = FirstFiles(w, call[w].next)
          /\ call[w].next <= Len(Files(w))
          /\ \A g \in FirstFiles(w, call[w].next - 1) : g # f => files[w][g] = Manifest(w)
      BY <1>1, <3>1 DEF Filled
    <3>3. Files(w)' = Files(w) /\ Manifest(w)' = Manifest(w)
      BY <2>5 DEF Files, Manifest
    <3>4. FirstFiles(w, call[w].next) = FirstFiles(w, call[w].next - 1) \cup {f}
      BY <1>1, <2>7 DEF FirstFiles
    <3>5. FirstFiles(w, call[w].next - 1)' = FirstFiles(w, call[w].next)
      BY <2>5, <2>7, <3>3 DEF FirstFiles
    <3>6. now = [g \in FirstFiles(w, call[w].next) |-> Manifest(w)]
      <4>1. now = [g \in DOMAIN files[d] |-> IF g = f THEN Manifest(w) ELSE files[d][g]]
        BY <1>1 DEF Contents
      <4> QED
        BY <1>1, <3>1, <3>2, <3>4, <4>1
    <3>7. call'[w].next <= Len(Files(w)) + 1
      BY <2>5, <2>7, <3>2
    <3> QED
      BY <2>2, <2>5, <3>1, <3>3, <3>5, <3>6, <3>7 DEF Filled
  <2>12. /\ files' \in [Directory -> Contents]
         /\ \A v \in Writer : v # w => files'[v] = files[v]
         /\ d # Foreign => files'[Foreign] = files[Foreign]
    BY <1>1, <2>1, <2>10, OwnContents
  <2> QED
    BY <2>1, <2>5, <2>6, <2>8, <2>9, <2>11, <2>12, OwnStep DEF WriterOK
<1> QED
  BY <1>2, <1>3

LEMMA PublishStep == ASSUME IInv, NEW w \in Writer, Publish(w) PROVE IInv'
<1>0. Around(w)
  BY Surroundings
<1> USE <1>0 DEF Around
<1>1. call[w].pc = "sealed" /\ call[w].owns = "staging"
  BY DEF Publish, Ownership
<1>2. CASE Fails(w)
  BY <1>1, <1>2, FailsOK
<1>3. CASE Open(w, "collision", entry[Packet]) /\ OnlyCall /\ entry[Packet] # NoDirectory
  <2>1. entry[Packet] \in Directory
    BY <1>3
  <2> QED
    BY <1>1, <1>3, <2>1, OpenOK
<1>4. CASE /\ entry[w] # NoDirectory /\ entry[Packet] = NoDirectory
           /\ entry' = [entry EXCEPT ![Packet] = entry[w], ![w] = NoDirectory]
           /\ call' = [call EXCEPT ![w].pc = "published", ![w].owns = "packet"]
           /\ UNCHANGED <<current, rooted, files, touched>>
  <2>1. /\ entry'[Packet] = entry[w] /\ entry'[w] = NoDirectory
        /\ \A n \in Name : n # w /\ n # Packet => entry'[n] = entry[n]
        /\ entry' \in [Name -> Directory \cup {NoDirectory}]
    BY <1>4
  <2>2. entry[w] \in {w, Foreign}
    BY <1>4
  <2>3. \A v \in Writer : v # w => \A n \in Name : entry'[n] = v <=> entry[n] = v
    BY <1>4, <2>1, <2>2
  <2>4. /\ \A n \in Name : entry[n] = Foreign => \E m \in Name : entry'[m] = Foreign
        /\ \A n \in Name : entry'[n] = Foreign => \E m \in Name : entry[m] = Foreign
    BY <1>4, <2>1
  <2>5. "published" \in Places
    BY DEF Places
  <2>6. call'[w] = [call[w] EXCEPT !.pc = "published", !.owns = "packet"]
    BY <1>4
  <2>7. /\ call'[w] \in CallRecord /\ call'[w].pc = "published" /\ call'[w].owns = "packet"
        /\ call'[w].via = call[w].via /\ call'[w].base = call[w].base
        /\ call'[w].kind = call[w].kind /\ call'[w].dir = call[w].dir
    <3> HIDE <1>0
    <3>1. call[w] \in CallRecord
      BY DEF IInv, Shaped
    <3> QED
      BY <2>5, <2>6, <3>1 DEF CallRecord
  <2>8. call' \in [Writer -> CallRecord] /\ \A v \in Writer : v # w => call'[v] = call[v]
    BY <1>4, <2>7
  <2>9. Ownership(w)' /\ NotMade(w)' /\ Judged(w)'
    BY <1>1, <1>4, <2>7 DEF Ownership, NotMade, Judged
  <2>10. Located(w)'
    BY <1>1, <1>4, <2>1, <2>7 DEF Located
  <2>11. Filled(w)'
    <3>1. Whole(w)' = Whole(w)
      BY <2>7 DEF Whole, Files, Manifest
    <3> QED
      BY <1>1, <1>4, <2>7, <3>1 DEF Filled
  <2>12. \A v \in Writer : v # w => entry'[v] = entry[v]
    BY <2>1, Distinct DEF Name
  <2> QED
    BY <1>4, <2>1, <2>3, <2>4, <2>7, <2>8, <2>9, <2>10, <2>11, <2>12, OwnStep DEF WriterOK
<1> QED
  BY <1>2, <1>3, <1>4 DEF Publish, Bound

LEMMA UnlinkStep == ASSUME IInv, NEW w \in Writer, Unlink(w) PROVE IInv'
<1>0. Around(w)
  BY Surroundings
<1> USE <1>0 DEF Around
<1>1. PICK f \in call[w].names :
          /\ files' = [files EXCEPT ![call[w].opened] =
                           [g \in DOMAIN files[call[w].opened] \ {f} |-> files[call[w].opened][g]]]
          /\ call' = [call EXCEPT ![w].names = @ \ {f}]
  BY DEF Unlink
<1> DEFINE d == call[w].dir
           now == [g \in DOMAIN files[d] \ {f} |-> files[d][g]]
<1>2. /\ call[w].pc \in {"unlinking", "emptying"} /\ call[w].opened = d
      /\ UNCHANGED <<current, rooted, entry, touched>>
      /\ d \in Directory /\ d \in {w, Foreign} /\ (w \notin touched => d = w)
  <2>1. /\ call[w].pc \in {"unlinking", "emptying"} /\ call[w].opened = d
        /\ UNCHANGED <<current, rooted, entry, touched>> /\ call[w].owns # "nothing"
    BY DEF Unlink, Ownership
  <2> QED
    BY <2>1, OwnDirectory
<1>3. w \notin touched => files'[w] = now
  BY <1>1, <1>2
<1>4. files' = [files EXCEPT ![d] = now]
  BY <1>1, <1>2
<1>5. call[w].names \ {f} \in NameSets
  BY DEF CallRecord, NameSets
<1>6. call'[w] = [call[w] EXCEPT !.names = call[w].names \ {f}]
  BY <1>1
<1>7. /\ call'[w] \in CallRecord /\ call'[w].pc = call[w].pc /\ call'[w].owns = call[w].owns
      /\ call'[w].via = call[w].via /\ call'[w].base = call[w].base
      /\ call'[w].at = call[w].at /\ call'[w].seen = call[w].seen
      /\ call'[w].kind = call[w].kind /\ call'[w].opened = call[w].opened
      /\ call'[w].names = call[w].names \ {f} /\ call'[w].dir = d
  <2> HIDE <1>0
  <2>1. call[w] \in CallRecord
    BY DEF IInv, Shaped
  <2> QED
    BY <1>5, <1>6, <2>1 DEF CallRecord
<1>8. call' \in [Writer -> CallRecord] /\ \A v \in Writer : v # w => call'[v] = call[v]
  BY <1>1, <1>7
<1>9. now \in Contents
  <2>1. DOMAIN files[d] \ {f} \in SUBSET Names /\ now \in [DOMAIN files[d] \ {f} -> Bytes]
    BY <1>2, ContentsHave
  <2> QED
    BY <2>1, ContentsAre
<1>10. Ownership(w)' /\ NotMade(w)' /\ Located(w)'
  BY <1>2, <1>7 DEF Ownership, NotMade, Located
<1>11. Judged(w)'
  <2>1. Files(w)' = Files(w) /\ Manifest(w)' = Manifest(w)
    BY <1>7 DEF Files, Manifest
  <2> QED
    BY <1>2, <1>7, <2>1 DEF Judged
<1>12. Filled(w)'
  BY <1>2, <1>3, <1>7 DEF Filled
<1>13. /\ files' \in [Directory -> Contents]
       /\ \A v \in Writer : v # w => files'[v] = files[v]
       /\ d # Foreign => files'[Foreign] = files[Foreign]
  BY <1>2, <1>4, <1>9, OwnContents
<1> QED
  BY <1>2, <1>7, <1>8, <1>10, <1>11, <1>12, <1>13, OwnStep DEF WriterOK

LEMMA RmdirStep == ASSUME IInv, NEW w \in Writer, Rmdir(w) PROVE IInv'
<1>0. Around(w)
  BY Surroundings
<1> USE <1>0 DEF Around
<1> DEFINE d == call[w].dir
<1>1. /\ call[w].pc \in {"unlinking", "emptying"} /\ call[w].names = {}
      /\ Goes(w, Answer(w)) /\ UNCHANGED <<current, rooted, files, touched>>
      /\ Place(w) \in {w, Packet}
      /\ d \in {w, Foreign} /\ (w \notin touched => d = w)
  <2>1. /\ call[w].pc \in {"unlinking", "emptying"} /\ call[w].names = {}
        /\ Goes(w, Answer(w)) /\ UNCHANGED <<current, rooted, files, touched>>
        /\ Place(w) \in {w, Packet} /\ call[w].owns # "nothing"
    BY DEF Rmdir, Place, Ownership
  <2> QED
    BY <2>1, OwnDirectory
<1>2. /\ \A n \in Name :
             entry'[n] # entry[n] => n = Place(w) /\ entry[n] = d /\ entry'[n] = NoDirectory
      /\ entry' \in [Name -> Directory \cup {NoDirectory}]
  <2>1. CASE Bound(Place(w), d) /\ files[d] = Empty
    <3>1. entry' = [entry EXCEPT ![Place(w)] = NoDirectory] /\ Place(w) \in Name
      BY <1>1, <2>1 DEF Rmdir
    <3>2. \A n \in Name : entry'[n] = IF n = Place(w) THEN NoDirectory ELSE entry[n]
      BY <3>1
    <3>3. entry' \in [Name -> Directory \cup {NoDirectory}]
      BY <3>1
    <3>4. entry[Place(w)] = d
      BY <2>1 DEF Bound
    <3> QED
      BY <3>2, <3>3, <3>4
  <2>2. CASE ~(Bound(Place(w), d) /\ files[d] = Empty)
    <3>1. entry' = entry
      BY <2>2 DEF Rmdir
    <3>2. entry \in [Name -> Directory \cup {NoDirectory}]
      OBVIOUS
    <3> QED
      BY <3>1, <3>2
  <2> QED
    BY <2>1, <2>2
<1>3. /\ \A v \in Writer : v # w => entry'[v] = entry[v]
      /\ \A v \in Writer : v # w => \A n \in Name : entry'[n] = v <=> entry[n] = v
      /\ d # Foreign =>
             \A n \in Name : entry[n] = Foreign => \E m \in Name : entry'[m] = Foreign
      /\ \A n \in Name : entry'[n] = Foreign => \E m \in Name : entry[m] = Foreign
      /\ entry'[w] \in {NoDirectory, w, Foreign}
  BY <1>1, <1>2, Distinct DEF Name
<1>4. w \notin touched => entry'[Place(w)] = NoDirectory
  <2>1. SUFFICES ASSUME w \notin touched PROVE entry'[Place(w)] = NoDirectory
    OBVIOUS
  <2>2. entry[Place(w)] = w
    BY <1>1, <2>1 DEF Ownership, Located, Place, CallRecord
  <2>3. files[w] = Empty
    <3>1. DOMAIN files[w] = {} /\ files[w] \in Contents
      BY <1>1, <2>1 DEF Filled
    <3> QED
      BY <3>1, ContentsHave
  <2> QED
    <3>1. Place(w) \in Name /\ d = w
      BY <1>1, <2>1
    <3>2. entry' = [entry EXCEPT ![Place(w)] = NoDirectory]
      BY <2>2, <2>3, <3>1 DEF Rmdir, Bound
    <3> QED
      BY <3>1, <3>2
<1>5. CASE call[w].pc = "unlinking"
  <2>1. Goes(w, "refused")
    BY <1>1, <1>5 DEF Answer
  <2>2. /\ call' \in [Writer -> CallRecord]
        /\ \A v \in Writer : v # w => call'[v] = call[v]
        /\ call'[w].pc = "refused" /\ call'[w].owns = "nothing" /\ call'[w].dir = d
        /\ Ownership(w)' /\ NotMade(w)' /\ Filled(w)' /\ Judged(w)'
    BY <2>1, Refused
  <2>3. Located(w)'
    <3>1. w \notin touched => entry'[w] # w /\ entry'[Packet] # w
      BY <1>1, <1>2, <1>4, <1>5 DEF Ownership, Located, Place, CallRecord
    <3>2. \A n \in Name : entry[n] = w => n \in {w, Packet}
      BY DEF IInv, Shaped, Name
    <3>3. w \notin touched => \A n \in Name : entry'[n] # w
      BY <1>2, <3>1, <3>2
    <3> QED
      BY <1>1, <2>2, <3>3, Distinct DEF Located
  <2>4. /\ UNCHANGED <<current, rooted, files, touched>> /\ files \in [Directory -> Contents]
        /\ call'[w].dir = call[w].dir /\ entry' \in [Name -> Directory \cup {NoDirectory}]
    BY <1>1, <1>2, <2>2
  <2> QED
    <3> HIDE <1>0
    <3>1. WriterOK(w)'
      BY <2>2, <2>3 DEF WriterOK
    <3> HIDE DEF d
    <3>2. d = call[w].dir
      BY DEF d
    <3> QED
      BY <1>3, <2>2, <2>4, <3>1, <3>2, OwnStep
<1>6. CASE call[w].pc = "emptying"
  <2>1. Goes(w, "accepted") /\ "accepted" \in Places
    BY <1>1, <1>6 DEF Answer, Places
  <2>2. /\ call' \in [Writer -> CallRecord]
        /\ \A v \in Writer : v # w => call'[v] = call[v]
        /\ call'[w] = [call[w] EXCEPT !.pc = "accepted", !.next = 1]
    BY <2>1, GoesCalls DEF IInv
  <2>3. /\ call'[w].pc = "accepted" /\ call'[w].owns = call[w].owns
        /\ call'[w].via = call[w].via /\ call'[w].base = call[w].base
        /\ call'[w].at = call[w].at /\ call'[w].seen = call[w].seen
        /\ call'[w].kind = call[w].kind /\ call'[w].dir = d
    BY <2>2 DEF CallRecord
  <2>4. Files(w)' = Files(w) /\ Manifest(w)' = Manifest(w)
    BY <2>3 DEF Files, Manifest
  <2>5. Ownership(w)' /\ NotMade(w)' /\ Filled(w)'
    BY <1>1, <1>6, <2>3 DEF Ownership, NotMade, Filled
  <2>6. Judged(w)'
    BY <1>1, <1>6, <2>3, <2>4 DEF Judged
  <2>7. Located(w)'
    BY <1>1, <1>4, <1>6, <2>3 DEF Ownership, Located, Place
  <2>8. /\ UNCHANGED <<current, rooted, files, touched>> /\ files \in [Directory -> Contents]
        /\ call'[w].dir = call[w].dir /\ entry' \in [Name -> Directory \cup {NoDirectory}]
    BY <1>1, <1>2, <2>3
  <2> QED
    <3> HIDE <1>0
    <3>1. WriterOK(w)'
      BY <2>2, <2>5, <2>6, <2>7 DEF WriterOK
    <3> HIDE DEF d
    <3>2. d = call[w].dir
      BY DEF d
    <3> QED
      BY <1>3, <2>2, <2>8, <3>1, <3>2, OwnStep
<1> QED
  BY <1>1, <1>5, <1>6

\* Everybody else.
LEMMA OutsideStep ==
    ASSUME IInv,
           Advance \/ MoveRoot \/ (\E n \in Name : Occupy(n) \/ MoveAway(n))
           \/ \E d \in Writer : AddEntry(d) \/ \E f \in File : Replace(d, f)
    PROVE  IInv'
<1>1. /\ entry \in [Name -> Directory \cup {NoDirectory}] /\ files \in [Directory -> Contents]
      /\ current \in 0..MaxGeneration /\ Foreign \in Directory /\ Writer \subseteq Directory
      /\ Packet \in Name /\ Writer \subseteq Name /\ current \in Nat
  BY Distinct DEF IInv, Shaped, Directory, Name
<1>2. CASE Advance
  <2>1. /\ current' = current + 1 /\ current' \in 0..MaxGeneration
        /\ UNCHANGED <<entry, files, call, touched>>
    BY <1>1, <1>2, Distinct DEF Advance
  <2>2. Shaped' /\ ForeignKept'
    BY <2>1 DEF IInv, Shaped, ForeignKept
  <2>3. \A v \in Writer : WriterOK(v)'
    BY <1>1, <2>1, OthersRest, Distinct
  <2> QED
    BY <2>2, <2>3 DEF IInv
<1>3. CASE MoveRoot
  <2>1. /\ UNCHANGED <<current, entry, files, call>> /\ touched' = touched \cup {Packet}
    BY <1>3 DEF MoveRoot, Touch
  <2>2. Shaped' /\ ForeignKept'
    BY <2>1, Distinct DEF IInv, Shaped, ForeignKept
  <2>3. \A v \in Writer : WriterOK(v)'
    BY <1>1, <2>1, OthersRest
  <2> QED
    BY <2>2, <2>3 DEF IInv
<1>4. ASSUME NEW n \in Name, Occupy(n) \/ MoveAway(n) PROVE IInv'
  <2>1. PICK d \in {Foreign, NoDirectory} :
            /\ d = Foreign => Foreign \notin touched /\ (n # Packet => entry[n] # NoDirectory)
            /\ d = NoDirectory => entry[n] \in Writer
            /\ entry' = [entry EXCEPT ![n] = d]
            /\ touched' = touched \cup ({d, entry[n]} \ {NoDirectory})
            /\ UNCHANGED <<current, rooted, files, call>>
    <3>1. CASE Occupy(n)
      BY <3>1, Distinct DEF Occupy, Rebind, Touch, Bound
    <3>2. CASE MoveAway(n)
      BY <3>2, Distinct DEF MoveAway, Rebind, Touch
    <3> QED
      BY <1>4, <3>1, <3>2
  <2>2. \A v \in Writer : entry'[v] \in {NoDirectory, v, Foreign}
    BY <1>1, <2>1 DEF IInv, Shaped
  <2>3. Shaped'
    BY <1>1, <2>1, <2>2 DEF IInv, Shaped
  <2>4. ForeignKept'
    <3>1. CASE d = Foreign
      BY <1>1, <2>1, <3>1, Distinct DEF IInv, ForeignKept
    <3>2. CASE d = NoDirectory
      <4>1. /\ entry[n] # Foreign /\ entry'[n] # Foreign
            /\ \A m \in Name : m # n => entry'[m] = entry[m]
            /\ Foreign \in touched' <=> Foreign \in touched
        BY <1>1, <2>1, <3>2, Distinct
      <4> QED
        BY <2>1, <4>1 DEF IInv, ForeignKept
    <3> QED
      BY <2>1, <3>1, <3>2
  <2>5. ASSUME NEW v \in Writer PROVE WriterOK(v)'
    <3>1. WriterOK(v) /\ Ownership(v) /\ NotMade(v) /\ Located(v) /\ Filled(v) /\ Judged(v)
      BY DEF IInv, WriterOK
    <3>2. Files(v)' = Files(v) /\ Manifest(v)' = Manifest(v) /\ Whole(v)' = Whole(v)
      BY <2>1 DEF Files, Manifest, Whole
    <3>3. Ownership(v)' /\ Judged(v)'
      BY <2>1, <3>1, <3>2 DEF Ownership, Judged
    <3>4. \A m \in Name : entry[m] # v => entry'[m] # v
      BY <1>1, <2>1, Distinct
    <3>5. NotMade(v)'
      <4>1. v \in Name /\ v # Packet
        BY <1>1, Distinct
      <4>2. entry[v] = NoDirectory => entry'[v] = NoDirectory
        BY <1>1, <2>1, <4>1, Distinct
      <4> QED
        BY <2>1, <3>1, <3>4, <4>2 DEF NotMade
    <3>6. v \notin touched' => v \notin touched /\ entry[n] # v
      BY <1>1, <2>1, Distinct
    <3>7. v \notin touched' => \A m \in Name : entry'[m] = v <=> entry[m] = v
      BY <1>1, <2>1, <3>4, <3>6
    <3>8. Located(v)'
      BY <1>1, <2>1, <3>1, <3>6, <3>7 DEF Located
    <3>9. Filled(v)'
      BY <2>1, <3>1, <3>2, <3>6 DEF Filled, FirstFiles
    <3> QED
      BY <3>3, <3>5, <3>8, <3>9 DEF WriterOK
  <2> QED
    BY <2>3, <2>4, <2>5 DEF IInv
<1>5. ASSUME NEW d \in Writer, NEW c \in Contents, files' = [files EXCEPT ![d] = c],
             touched' = touched \cup {d}, files[d] # Empty \/ \E n \in Name : entry[n] = d,
             UNCHANGED <<current, rooted, entry, call>>
      PROVE  IInv'
  <2>1. Shaped' /\ ForeignKept'
    BY <1>1, <1>5, Distinct DEF IInv, Shaped, ForeignKept
  <2>2. ASSUME NEW v \in Writer PROVE WriterOK(v)'
    <3>1. CASE v # d
      BY <1>1, <1>5, <3>1, OthersRest
    <3>2. CASE v = d
      <4>1. WriterOK(v)
        BY DEF IInv
      <4>2. Files(v)' = Files(v) /\ Manifest(v)' = Manifest(v)
        BY <1>5 DEF Files, Manifest
      <4>3. v \in touched'
        BY <1>5, <3>2
      <4>4. Located(v)' /\ Filled(v)'
        BY <4>3 DEF Located, Filled
      <4>5. Ownership(v)' /\ NotMade(v)' /\ Judged(v)'
        BY <1>5, <3>2, <4>1, <4>2 DEF WriterOK, Ownership, NotMade, Judged
      <4> QED
        BY <4>4, <4>5 DEF WriterOK
    <3> QED
      BY <3>1, <3>2
  <2> QED
    BY <2>1, <2>2 DEF IInv
<1>6. ASSUME NEW d \in Writer, AddEntry(d) PROVE IInv'
  <2> DEFINE D == DOMAIN files[d] \cup {"alien"}
             c == [g \in D |-> IF g = "alien" THEN Other ELSE files[d][g]]
  <2>1. /\ files' = [files EXCEPT ![d] = c] /\ touched' = touched \cup {d}
        /\ \E n \in Name : entry[n] = d
        /\ UNCHANGED <<current, rooted, entry, call>>
    BY <1>6 DEF AddEntry, Touch, Bound
  <2>2. /\ DOMAIN files[d] \in SUBSET Names
        /\ \A g \in DOMAIN files[d] : files[d][g] \in Bytes
    BY <1>1, ContentsHave
  <2>3. D \in SUBSET Names /\ c \in [D -> Bytes]
    BY <2>2 DEF Names, Bytes
  <2>4. c \in Contents
    BY <2>3, ContentsAre
  <2> QED
    BY <1>5, <2>1, <2>4
<1>7. ASSUME NEW d \in Writer, NEW f \in File, Replace(d, f) PROVE IInv'
  <2> DEFINE D == DOMAIN files[d]
             c == [g \in D |-> IF g = f THEN Other ELSE files[d][g]]
  <2>1. /\ f \in D /\ files' = [files EXCEPT ![d] = [files[d] EXCEPT ![f] = Other]]
        /\ touched' = touched \cup {d} /\ UNCHANGED <<current, rooted, entry, call>>
    BY <1>7 DEF Replace, Touch
  <2>2. files[d] = [g \in D |-> files[d][g]]
    BY <1>1 DEF Contents
  <2>3. [files[d] EXCEPT ![f] = Other] = c
    BY <2>2
  <2>4. /\ D \in SUBSET Names
        /\ \A g \in D : files[d][g] \in Bytes
    BY <1>1, ContentsHave
  <2>5. c \in [D -> Bytes]
    BY <2>4 DEF Bytes
  <2>6. c \in Contents
    BY <2>4, <2>5, ContentsAre
  <2>7. files[d] # Empty
    BY <2>1 DEF Empty
  <2> QED
    BY <1>5, <2>1, <2>3, <2>6, <2>7
<1> QED
  BY <1>2, <1>3, <1>4, <1>6, <1>7

LEMMA InitOK == PacketInit => IInv
<1> SUFFICES ASSUME PacketInit PROVE IInv
  OBVIOUS
<1>1. /\ current = 0 /\ entry = [n \in Name |-> NoDirectory]
      /\ files = [d \in Directory |-> IF d = Foreign THEN Lookalike ELSE Empty]
      /\ call = [w \in Writer |-> Idle] /\ touched = {}
  BY DEF PacketInit
<1>2. Empty \in Contents
  <2>1. {} \in SUBSET Names /\ Empty \in [{} -> Bytes]
    BY DEF Empty
  <2> QED
    BY <2>1, ContentsAre
<1>3. Lookalike \in Contents
  <2> DEFINE D == {FilesOf["review"][i] : i \in DOMAIN FilesOf["review"]}
  <2>1. D \subseteq File
    BY PacketAssumption DEF File
  <2>2. D \in SUBSET Names /\ Lookalike \in [D -> Bytes]
    BY <2>1 DEF Names, Bytes, Lookalike
  <2> QED
    BY <2>2, ContentsAre
<1>4. Shaped
  BY <1>1, <1>2, <1>3, IdleIs, Distinct DEF Shaped, Name, Directory
<1>5. ForeignKept
  BY <1>1, IdleIs, Distinct DEF ForeignKept, Directory
<1>6. ASSUME NEW w \in Writer PROVE WriterOK(w)
  <2>1. call[w] = Idle /\ entry[w] = NoDirectory /\ files[w] = Empty
    BY <1>1, Distinct DEF Name, Directory
  <2>2. Ownership(w) /\ Located(w) /\ Filled(w)
    BY <2>1, IdleIs, Distinct DEF Ownership, Located, Filled
  <2>3. NotMade(w)
    BY <1>1, <2>1, Distinct DEF NotMade
  <2>4. Judged(w)
    BY <1>1, <2>1, IdleIs DEF Judged
  <2> QED
    BY <2>2, <2>3, <2>4 DEF WriterOK
<1> QED
  BY <1>4, <1>5, <1>6 DEF IInv

LEMMA NextOK == IInv /\ [PacketNext]_packetVars => IInv'
<1> SUFFICES ASSUME IInv, [PacketNext]_packetVars PROVE IInv'
  OBVIOUS
<1>1. ASSUME NEW w \in Writer, Step(w) PROVE IInv'
  BY <1>1, BeginStep, PrepareStep, LookupStep, MakeStagingStep, TakeIdentityStep,
     OpenStagingStep, CreateFileStep, FillFileStep, SealStep, PublishStep,
     CheckPublishedStep, ReadFileStep, JudgeStep, RebindFileStep, ConfirmStep, AcceptStep, InspectStep, UnlinkStep, RmdirStep
     DEF Step
<1>2. ASSUME NEW w \in Writer, Die(w) PROVE IInv'
  BY <1>2, DieStep
<1>3. CASE \/ Advance \/ MoveRoot \/ (\E n \in Name : Occupy(n) \/ MoveAway(n))
           \/ \E d \in Writer : AddEntry(d) \/ \E f \in File : Replace(d, f)
  BY <1>3, OutsideStep
<1>4. CASE UNCHANGED packetVars
  <2>1. UNCHANGED <<current, rooted, entry, files, call, touched>>
    BY <1>4 DEF packetVars
  <2>2. Shaped' /\ ForeignKept'
    BY <2>1 DEF IInv, Shaped, ForeignKept
  <2>3. \A v \in Writer : WriterOK(v)'
    BY <2>1, OthersRest, Distinct DEF IInv, Shaped
  <2> QED
    BY <2>2, <2>3 DEF IInv
<1> QED
  BY <1>1, <1>2, <1>3, <1>4 DEF PacketNext

\* The directories, names and calls of all writers stay together as described.
THEOREM PacketInvariant == PacketSpec => []IInv
<1> QED
  BY InitOK, NextOK, PTL DEF PacketSpec

\* The packet of a writer that has returned its manifest is never removed,
\* replaced or changed by a writer: not by write_synthetic_review_packet or
\* write_synthetic_pilot_packet of another one, however its call ends.
THEOREM PublishedStay == PacketSpec => []PublishedPacketsStay
<1>1. IInv => PublishedPacketsStay
  BY DEF IInv, WriterOK, Ownership, Located, Filled, PublishedPacketsStay, Bound
<1> QED
  BY <1>1, PacketInvariant, PTL

\* After _remove_closed_packet_at nothing of a failed call is there, and no
\* staging directory of a successful one, unless other programs interfered.
THEOREM NothingLeft == PacketSpec => []NothingIsLeftBehind
<1>1. IInv => NothingIsLeftBehind
  <2> SUFFICES ASSUME IInv, NEW w \in Writer, w \notin touched
               PROVE  /\ call[w].pc = "refused" => \A n \in Name : entry[n] # w
                      /\ call[w].pc = "accepted" => entry[w] # w
    BY DEF NothingIsLeftBehind, Bound
  <2>1. NotMade(w) /\ Located(w) /\ call[w].owns \in {"nothing", "staging", "packet"}
    BY DEF IInv, WriterOK, Shaped, CallRecord
  <2> QED
    BY Distinct, <2>1 DEF NotMade, Located
<1> QED
  BY <1>1, PacketInvariant, PTL

\* A foreign directory is neither removed nor emptied by a writer, whatever name
\* of a writer it has taken, as long as none has taken it for its own between its
\* os.mkdir and its os.stat: from then on every step of every writer that removes or
\* writes anything is held to the directory that was taken.
THEOREM ForeignSpared == PacketSpec => []OthersAreSpared
<1>1. IInv => OthersAreSpared
  BY DEF IInv, ForeignKept, OthersAreSpared, ForeignIntact, Bound
<1> QED
  BY <1>1, PacketInvariant, PTL

\* What a call returns was verified, byte for byte, while the generation that it
\* was assembled from was CURRENT.
THEOREM ReturnedCurrent == PacketSpec => []PacketsAreOfCurrent
<1>1. IInv => PacketsAreOfCurrent
  BY DEF IInv, WriterOK, Judged, PacketsAreOfCurrent
<1> QED
  BY <1>1, PacketInvariant, PTL
================================================================================
