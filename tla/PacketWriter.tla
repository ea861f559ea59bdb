------------------------------ MODULE PacketWriter ------------------------------
(***************************************************************************)
(* Publishing a review packet: write_synthetic_review_packet and           *)
(* write_synthetic_pilot_packet with the directory operations they share.  *)
(*                                                                         *)
(* A writer assembles what CURRENT holds, writes the files into a staging  *)
(* directory of its own beside the destination, renames it there unless    *)
(* something has the name, and verifies what is there.  It answers with a  *)
(* manifest, for its own packet or for an equal one that it found, or      *)
(* removes what it has made.  CURRENT moves on meanwhile, other writers    *)
(* work on the same destination, other programs rename and replace what is *)
(* below its parent, and a process may die between any two steps.          *)
(*                                                                         *)
(* Directories are held by descriptor, so a name may come to stand for     *)
(* another directory than the one that is held; and the identity of the    *)
(* staging directory is read by its name, after it was made.               *)
(***************************************************************************)
EXTENDS Integers, Sequences, FiniteSets

CONSTANTS
    Writer,
    FilesOf,           \* the files of a packet of each kind, as they are written
    MaxGeneration,     \* bound: the newest generation
    MaxOutside,        \* bound: what other programs do below the parent
    MaxDeaths,         \* bound: writers that are killed
    Packet,            \* the name of the destination
    Foreign,           \* a directory that no writer has made
    NoDirectory

ASSUME PacketAssumption ==
    /\ FilesOf \in [{"review", "pilot"} -> Seq(STRING)]
    /\ FilesOf["review"] # <<>> /\ FilesOf["pilot"] # <<>>
    /\ MaxGeneration \in Nat /\ MaxOutside \in Nat /\ MaxDeaths \in Nat
    /\ {Packet, Foreign, NoDirectory} \cap Writer = {}
    /\ Foreign \notin {Packet, NoDirectory}

VARIABLES
    current,           \* the generation that CURRENT names
    rooted,            \* the roots are where they were opened and apart
    entry,             \* the directory that each name below the parent stands for
    files,             \* what is in each directory
    call,              \* the progress of each writer
    touched            \* what other programs have done, for the properties

packetVars == <<current, rooted, entry, files, call, touched>>

\* The staging name of a writer is random: it is the writer's own, and so is
\* the directory that it makes under it.
Name == {Packet} \cup Writer
Directory == Writer \cup {Foreign}
File == UNION {{FilesOf[kind][i] : i \in DOMAIN FilesOf[kind]} : kind \in DOMAIN FilesOf}

\* A file has the bytes of one packet, some of them, or others.
Packets == [kind : {"review", "pilot"}, generation : 0..MaxGeneration]
Partial == [kind |-> "partial", generation |-> 0]
Other == [kind |-> "other", generation |-> 0]
Empty == [f \in {} |-> Other]

\* The foreign directory has the files of a review packet, by their names.
Lookalike == [f \in {FilesOf["review"][i] : i \in DOMAIN FilesOf["review"]} |-> Other]

\* kind tells the two functions apart; base is the generation that was assembled;
\* dir is the directory that the writer takes for its own (staging_identity), and
\* keeps, for the properties, when the call is over; via, how the packet that is verified came to be there; opened, its directory;
\* owns, what the writer would have to remove; next, the number of a file; seen,
\* the bytes read so far; names, what is still to be unlinked; at, for the
\* properties, CURRENT when the bytes were found to be right.
Idle == [pc |-> "idle", kind |-> "review", base |-> 0, via |-> "none",
         opened |-> NoDirectory, owns |-> "nothing", next |-> 1, seen |-> <<>>,
         names |-> {}, at |-> 0, dir |-> NoDirectory]

\* The roots are opened, each component of their paths.
PacketInit ==
    /\ current = 0 /\ rooted = TRUE
    /\ entry = [n \in Name |-> NoDirectory]
    /\ files = [d \in Directory |-> IF d = Foreign THEN Lookalike ELSE Empty]
    /\ call = [w \in Writer |-> Idle]
    /\ touched = {}

Files(w) == FilesOf[call[w].kind]
Manifest(w) == [kind |-> call[w].kind, generation |-> call[w].base]
Whole(w) == [f \in {Files(w)[i] : i \in DOMAIN Files(w)} |-> Manifest(w)]

(***************************************************************************)
(* What a writer checks, again and again                                   *)
(***************************************************************************)
\* verify_roots
RootsStand == rooted

\* verify_source_current: the roots, CURRENT, and the roots again.
SourceCurrent(w) == RootsStand /\ current = call[w].base

\* verify_live_anchors reads more (snapshot, registry, receipts, registration,
\* head), all of it immutable in the generation that CURRENT names.
LiveAnchors(w) == SourceCurrent(w)

Current(w) == IF call[w].kind = "pilot" THEN LiveAnchors(w) ELSE SourceCurrent(w)

\* _verify_directory_entry_at
Bound(n, d) == entry[n] = d

\* The staging name still stands for the directory that was taken for the own one.
StagingIntact(w) == SourceCurrent(w) /\ Bound(w, call[w].dir)

\* The directory has the files of the packet and nothing else.
Closed(w, d) == DOMAIN files[d] = {Files(w)[i] : i \in DOMAIN Files(w)}

OfOnePacket(w, seen, kind) ==
    \E m \in Packets : m.kind = kind /\ seen = [i \in DOMAIN Files(w) |-> m]

\* Every file is in the manifest with its digest, and the records agree with
\* each other and with the generation that they name.
GenuineReview(w, seen) == OfOnePacket(w, seen, "review")

\* A pilot packet has its corpus, receipts, journal and usage in it, and they
\* are verified from its own files alone, up to the whole fixed sequence.
GenuinePilot(w, seen) == OfOnePacket(w, seen, "pilot")

Genuine(w, seen) ==
    IF call[w].kind = "pilot" THEN GenuinePilot(w, seen) ELSE GenuineReview(w, seen)

\* Faulty: whatever stands under the name is taken for the writer's own.
RemovableByName(w, n) ==
    ~Bound(n, NoDirectory)
    /\ DOMAIN files[entry[n]] \subseteq {Files(w)[i] : i \in DOMAIN Files(w)}

\* _remove_closed_packet_at: the name stands for the writer's own directory and
\* there is nothing in it that is not of a packet.
RemovableAt(w, n) ==
    LET d == call[w].dir
    IN Bound(n, d) /\ DOMAIN files[d] \subseteq {Files(w)[i] : i \in DOMAIN Files(w)}

(***************************************************************************)
(* A call                                                                  *)
(***************************************************************************)
Goes(w, pc) ==
    call' = [call EXCEPT ![w] = IF pc \in {"refused", "dead"}
                                THEN [Idle EXCEPT !.pc = pc, !.dir = call[w].dir]
                                ELSE [@ EXCEPT !.pc = pc, !.next = 1]]
OnlyCall == UNCHANGED <<current, rooted, entry, files, touched>>

\* An error: what the writer owns is to be removed, if it owns anything.
Fails(w) ==
    /\ Goes(w, IF call[w].owns = "nothing" THEN "refused" ELSE "failed")
    /\ OnlyCall

\* The caller has assembled the section from CURRENT.
Begin(w) ==
    /\ call[w].pc = "idle"
    /\ \E kind \in {"review", "pilot"} :
           call' = [call EXCEPT ![w].pc = "called", ![w].kind = kind, ![w].base = current]
    /\ OnlyCall

\* The generation is loaded, and the section is assembled from it once more.
Loaded(w) == SourceCurrent(w)

\* Snapshot, registration, corpus, the journal from its head to the registration,
\* its artifacts and the receipts are read, and the anchors are read again.
Captured(w) == LiveAnchors(w)

\* The roots are opened and the files are prepared.
Prepare(w) ==
    /\ call[w].pc = "called"
    /\ IF (call[w].kind = "pilot" /\ Captured(w)) \/ (call[w].kind = "review" /\ Loaded(w))
       THEN Goes(w, "prepared") /\ OnlyCall
       ELSE Fails(w)

\* An existing directory is opened to be verified, never to be changed.
Open(w, via, d) ==
    call' = [call EXCEPT ![w].pc = "reading", ![w].via = via, ![w].opened = d,
                         ![w].next = 1, ![w].seen = <<>>]

Lookup(w) ==
    /\ call[w].pc = "prepared"
    /\ IF Bound(Packet, NoDirectory) THEN Goes(w, "staging") /\ OnlyCall
       ELSE IF RootsStand THEN Open(w, "found", entry[Packet]) /\ OnlyCall
       ELSE Fails(w)

\* os.mkdir makes a directory under the staging name, ...
MakeStaging(w) ==
    /\ call[w].pc = "staging"
    /\ entry' = [entry EXCEPT ![w] = w]
    /\ Goes(w, "made")
    /\ UNCHANGED <<current, rooted, files, touched>>

\* ... os.stat asks what the name stands for, and that is the writer's own from
\* here on, ...
TakeIdentity(w) ==
    /\ call[w].pc = "made"
    /\ IF ~Bound(w, NoDirectory)
       THEN /\ call' = [call EXCEPT ![w].pc = "taken", ![w].dir = entry[w],
                                    ![w].owns = "staging"]
            /\ OnlyCall
       ELSE Fails(w)

\* ... and it is opened, if the name still stands for it.
OpenStaging(w) ==
    /\ call[w].pc = "taken"
    /\ IF Bound(w, call[w].dir) THEN Goes(w, "writing") /\ OnlyCall ELSE Fails(w)

\* _write_packet_file_at: the file is created, without replacing one, ...
CreateFile(w) ==
    LET f == Files(w)[call[w].next]
        d == call[w].dir
    IN /\ call[w].pc = "writing" /\ call[w].next <= Len(Files(w))
       /\ IF StagingIntact(w) /\ f \notin DOMAIN files[d]
          THEN /\ files' = [files EXCEPT ![d] = [g \in DOMAIN @ \cup {f} |->
                                IF g = f THEN Partial ELSE @[g]]]
               /\ call' = [call EXCEPT ![w].pc = "filling"]
               /\ UNCHANGED <<current, rooted, entry, touched>>
          ELSE Fails(w)

\* ... and written through its descriptor, and must still have its name.
FillFile(w) ==
    LET f == Files(w)[call[w].next]
        d == call[w].dir
    IN /\ call[w].pc = "filling"
       /\ IF StagingIntact(w) /\ f \in DOMAIN files[d] /\ files[d][f] = Partial
          THEN /\ files' = [files EXCEPT ![d][f] = Manifest(w)]
               /\ call' = [call EXCEPT ![w].pc = "writing", ![w].next = @ + 1]
               /\ UNCHANGED <<current, rooted, entry, touched>>
          ELSE Fails(w)

Seal(w) ==
    /\ call[w].pc = "writing" /\ call[w].next > Len(Files(w))
    /\ IF Closed(w, call[w].dir) /\ StagingIntact(w) /\ Current(w)
       THEN Goes(w, "sealed") /\ OnlyCall
       ELSE Fails(w)

\* Faulty: a rename that replaces what has the name.
PublishOver(w) ==
    /\ call[w].pc = "sealed"
    /\ entry' = [entry EXCEPT ![Packet] = entry[w], ![w] = NoDirectory]
    /\ call' = [call EXCEPT ![w].pc = "published", ![w].owns = "packet"]
    /\ UNCHANGED <<current, rooted, files, touched>>

\* renameat2(RENAME_NOREPLACE) takes whatever the staging name stands for.
Publish(w) ==
    /\ call[w].pc = "sealed"
    /\ IF Bound(w, NoDirectory) THEN Fails(w)
       ELSE IF Bound(Packet, NoDirectory)
       THEN /\ entry' = [entry EXCEPT ![Packet] = entry[w], ![w] = NoDirectory]
            /\ call' = [call EXCEPT ![w].pc = "published", ![w].owns = "packet"]
            /\ UNCHANGED <<current, rooted, files, touched>>
       ELSE Open(w, "collision", entry[Packet]) /\ OnlyCall

CheckPublished(w) ==
    /\ call[w].pc = "published"
    /\ IF Bound(Packet, call[w].dir) /\ Current(w)
       THEN Open(w, "own", call[w].dir) /\ OnlyCall
       ELSE Fails(w)

(***************************************************************************)
(* Verifying the packet under the destination                              *)
(***************************************************************************)
\* One file after the other; the name and the inventory are checked first.
ReadFile(w) ==
    LET d == call[w].opened
        f == Files(w)[call[w].next]
    IN /\ call[w].pc = "reading" /\ call[w].next <= Len(Files(w))
       /\ IF /\ call[w].next = 1 => Bound(Packet, d) /\ Closed(w, d)
             /\ f \in DOMAIN files[d]
          THEN call' = [call EXCEPT ![w].next = @ + 1, ![w].seen = Append(@, files[d][f])]
               /\ OnlyCall
          ELSE Fails(w)

\* What was read must be a packet, and the one that this writer would make.
Judge(w) ==
    LET d == call[w].opened IN
    /\ call[w].pc = "reading" /\ call[w].next > Len(Files(w))
    /\ IF /\ Closed(w, d) /\ Bound(Packet, d)
          /\ Genuine(w, call[w].seen) /\ call[w].seen[1] = Manifest(w)
       THEN call' = [call EXCEPT ![w].pc = "rebinding", ![w].next = 1, ![w].at = current]
            /\ OnlyCall
       ELSE Fails(w)

\* Verifying took long: every file is read again.
RebindFile(w) ==
    LET d == call[w].opened
        f == Files(w)[call[w].next]
    IN /\ call[w].pc = "rebinding" /\ call[w].next <= Len(Files(w))
       /\ IF /\ call[w].next = 1 => Closed(w, d)
             /\ f \in DOMAIN files[d] /\ files[d][f] = call[w].seen[call[w].next]
          THEN call' = [call EXCEPT ![w].next = @ + 1] /\ OnlyCall
          ELSE Fails(w)

Confirm(w) ==
    LET d == call[w].opened IN
    /\ call[w].pc = "rebinding" /\ call[w].next > Len(Files(w))
    /\ IF Closed(w, d) /\ Bound(Packet, d)
       THEN Goes(w, "confirmed") /\ OnlyCall
       ELSE Fails(w)

\* Faulty: CURRENT is not looked at again.
AcceptAnyway(w) ==
    /\ call[w].pc = "confirmed"
    /\ IF RootsStand /\ Bound(Packet, call[w].opened)
       THEN Goes(w, IF call[w].owns = "staging" THEN "cleaning" ELSE "accepted") /\ OnlyCall
       ELSE Fails(w)

\* The caller gets the manifest, once the staging directory of a writer that
\* lost the name is removed.
Accept(w) ==
    /\ call[w].pc = "confirmed"
    /\ IF Current(w) /\ Bound(Packet, call[w].opened)
       THEN Goes(w, IF call[w].owns = "staging" THEN "cleaning" ELSE "accepted") /\ OnlyCall
       ELSE Fails(w)

(***************************************************************************)
(* Removing what was made                                                  *)
(***************************************************************************)
\* Faulty: only the staging name is looked at.
StagingPlace(w) == w

Place(w) == IF call[w].owns = "packet" THEN Packet ELSE w
Answer(w) == IF call[w].pc \in {"cleaning", "emptying"} THEN "accepted" ELSE "refused"

\* Best effort: nothing is removed unless all of it may be.  The directory that
\* the name stands for is opened and listed.
Inspect(w) ==
    LET d == entry[Place(w)] IN
    /\ call[w].pc \in {"failed", "cleaning"}
    /\ IF RemovableAt(w, Place(w))
       THEN call' = [call EXCEPT ![w].pc = IF @ = "failed" THEN "unlinking" ELSE "emptying",
                                 ![w].opened = d, ![w].names = DOMAIN files[d]]
       ELSE Goes(w, Answer(w))
    /\ OnlyCall

Unlink(w) ==
    LET d == call[w].opened IN
    /\ call[w].pc \in {"unlinking", "emptying"}
    /\ \E f \in call[w].names :
           /\ files' = [files EXCEPT ![d] = [g \in DOMAIN @ \ {f} |-> @[g]]]
           /\ call' = [call EXCEPT ![w].names = @ \ {f}]
    /\ UNCHANGED <<current, rooted, entry, touched>>

\* rmdir needs the name and an empty directory.
Rmdir(w) ==
    /\ call[w].pc \in {"unlinking", "emptying"} /\ call[w].names = {}
    /\ entry' = IF Bound(Place(w), call[w].dir) /\ files[call[w].dir] = Empty
                THEN [entry EXCEPT ![Place(w)] = NoDirectory] ELSE entry
    /\ Goes(w, Answer(w))
    /\ UNCHANGED <<current, rooted, files, touched>>

\* The process is killed: nothing is removed.
Die(w) ==
    /\ call[w].pc \notin {"idle", "accepted", "refused", "dead"}
    /\ Cardinality({v \in Writer : call[v].pc = "dead"}) < MaxDeaths
    /\ Goes(w, "dead") /\ OnlyCall

Step(w) ==
    \/ Begin(w) \/ Prepare(w) \/ Lookup(w)
    \/ MakeStaging(w) \/ TakeIdentity(w) \/ OpenStaging(w) \/ CreateFile(w) \/ FillFile(w)
    \/ Seal(w) \/ Publish(w) \/ CheckPublished(w)
    \/ ReadFile(w) \/ Judge(w) \/ RebindFile(w) \/ Confirm(w) \/ Accept(w)
    \/ Inspect(w) \/ Unlink(w) \/ Rmdir(w)

(***************************************************************************)
(* Everybody else                                                          *)
(***************************************************************************)
\* A task is accepted.
Advance ==
    /\ current < MaxGeneration
    /\ current' = current + 1
    /\ UNCHANGED <<rooted, entry, files, call, touched>>

Touch(D) ==
    /\ Cardinality(touched) < MaxOutside
    /\ touched' = touched \cup D

\* What has a name is moved away.
Rebind(n, d) ==
    /\ entry' = [entry EXCEPT ![n] = d]
    /\ Touch({d, entry[n]} \ {NoDirectory})
    /\ UNCHANGED <<current, rooted, files, call>>

\* The foreign directory takes a name.  (No one knows a staging name before it is
\* there.)
Occupy(n) ==
    /\ Foreign \notin touched
    /\ n # Packet => ~Bound(n, NoDirectory)
    /\ Rebind(n, Foreign)

MoveAway(n) == entry[n] \in Writer /\ Rebind(n, NoDirectory)

Replace(d, f) ==
    /\ f \in DOMAIN files[d]
    /\ files' = [files EXCEPT ![d][f] = Other]
    /\ Touch({d})
    /\ UNCHANGED <<current, rooted, entry, call>>

AddEntry(d) ==
    /\ \E n \in Name : Bound(n, d)
    /\ files' = [files EXCEPT ![d] = [g \in DOMAIN @ \cup {"alien"} |->
                     IF g = "alien" THEN Other ELSE @[g]]]
    /\ Touch({d})
    /\ UNCHANGED <<current, rooted, entry, call>>

MoveRoot ==
    /\ rooted
    /\ rooted' = FALSE
    /\ Touch({Packet})
    /\ UNCHANGED <<current, entry, files, call>>

PacketNext ==
    \/ \E w \in Writer : Step(w) \/ Die(w)
    \/ Advance \/ MoveRoot
    \/ \E n \in Name : Occupy(n) \/ MoveAway(n)
    \/ \E d \in Writer : AddEntry(d) \/ \E f \in File : Replace(d, f)

PacketSpec == PacketInit /\ [][PacketNext]_packetVars

(***************************************************************************)
(* Properties                                                              *)
(***************************************************************************)
\* A packet whose writer has returned its manifest stays, whole and under its
\* name, whatever other writers do and whatever becomes of their calls.  (An
\* equal packet that a writer has found may still be withdrawn by its own
\* writer, when CURRENT moves before that one is through.)
PublishedPacketsStay ==
    \A w \in Writer : call[w].pc = "accepted" /\ call[w].via = "own" /\ w \notin touched =>
        Bound(Packet, w) /\ files[w] = Whole(w)

\* A call that ends leaves nothing behind but the packet it was made for: no
\* staging directory, and after an error none of its files under the
\* destination either, unless other programs have put their hands on them.
NothingIsLeftBehind ==
    \A w \in Writer : w \notin touched =>
        /\ call[w].pc = "refused" => \A n \in Name : ~Bound(n, w)
        /\ call[w].pc = "accepted" => ~Bound(w, w)

\* The foreign directory is under some name, as it was.
ForeignIntact == (\E n \in Name : Bound(n, Foreign)) /\ files[Foreign] = Lookalike

\* A foreign directory under a name of a writer, though it looks like a packet,
\* is neither removed nor emptied, neither when it takes the staging name before
\* the rename nor when it takes the destination after it.  The one exception is a
\* directory that has taken the staging name between os.mkdir and os.stat: a writer
\* takes that for its own.
OthersAreSpared ==
    Foreign \in touched /\ (\A w \in Writer : call[w].dir # Foreign) => ForeignIntact

\* The packet that a call returns was verified, under its name, while the
\* generation that it was made from was CURRENT.
PacketsAreOfCurrent ==
    \A w \in Writer : call[w].pc = "accepted" =>
        call[w].at = call[w].base /\ call[w].seen = [i \in DOMAIN Files(w) |-> Manifest(w)]
================================================================================
