----------------------------- MODULE LegStreams -----------------------------
(***************************************************************************)
(* The audio streams of one SIP leg: its m-line table (sip/mlines.go), the *)
(* re-INVITEs that add, remove and hold them (leg/stream_ops.go,           *)
(* sip_leg.go), the peer's re-INVITEs (leg/media_stream.go), their sockets *)
(* and the rooms they are mixed into (api/leg_streams.go, room/stream.go). *)
(* A stream is known by its m-line, so a later stream on the same line is  *)
(* taken for it by whoever holds the ID only.  RTT's section is left out.  *)
(***************************************************************************)
EXTENDS Integers, Sequences, FiniteSets

CONSTANTS
    Rooms,
    Callers,       \* API requests under way at a time
    None,
    MaxLines,      \* bound: sections of the dialog
    MaxStreams,    \* bound: streams ever created
    MaxOffers,     \* bound: re-INVITEs of the peer
    Overlap,       \* requests on the leg, and the peer's, may overlap
    Holds          \* callers hold and resume the leg

Lines == 1 .. MaxLines
Streams == 1 .. MaxStreams

VARIABLES
    slots,      \* the m-line table: the stream a slot advertises, 0 if removed
    current,    \* l.streams: the stream on a line, or 0
    media,      \* each stream's line, socket, peer address, set-ups and room
    last,       \* streams created so far
    wire,       \* the sections last agreed on, as a table
    offers,     \* re-INVITEs the peer made
    mixed,      \* r.legStreams: the lines a room mixes
    roomIs, leg,
    task        \* what each request is at

legVars == <<slots, current, media, last>>
roomVars == <<mixed, roomIs>>
vars == <<legVars, roomVars, wire, offers, leg, task>>

NoStream == [line |-> 0, sock |-> "none", heard |-> FALSE, setUps |-> 0, room |-> None]
NewStream(i) == [NoStream EXCEPT !.line = i, !.sock = "open"]
Idle == [pc |-> "idle", op |-> "none", line |-> 0, stream |-> 0, room |-> None,
         from |-> None, body |-> <<>>]

\* A call with one section was negotiated without the table.
Init ==
    /\ \E n \in {1, 2} :
          /\ slots = IF n = 1 THEN <<>> ELSE <<1, 2>>
          /\ last = n
          /\ wire = [i \in 1 .. n |-> i]
          /\ current = [i \in Lines |-> IF i <= n THEN i ELSE 0]
          /\ media = [s \in Streams |->
                         IF s <= n THEN [NewStream(s) EXCEPT !.heard = TRUE, !.setUps = 1]
                                   ELSE NoStream]
    /\ offers = 0 /\ leg = "up"
    /\ mixed = [r \in Rooms |-> {}] /\ roomIs = [r \in Rooms |-> "open"]
    /\ task = [c \in Callers |-> Idle]

Negotiating(c) == task[c].pc \in {"offer", "sent", "answered"}
At(c, pc) == task[c].pc = pc
Goto(c, t) == task' = [task EXCEPT ![c] = t]
Step(c, pc) == Goto(c, [task[c] EXCEPT !.pc = pc])
Done(c) == Goto(c, Idle)

\* A request finds the leg registered; orderly ones wait for each other.
Starts(c) ==
    /\ At(c, "idle") /\ leg # "gone"
    /\ Overlap \/ /\ \A d \in Callers : At(d, "idle")
                  /\ \A r \in Rooms : roomIs[r] # "closing"

\* ensurePrimarySlotLocked.
WithPrimary == IF slots = <<>> THEN <<1>> ELSE slots

\* LocalStreams: every slot at its place, removed ones as port 0.
MutLocalStreams(table) == SelectSeq(table, LAMBDA s : s # 0)   \* mutant

LocalStreams(table) == table

\* appendAudioSections: an offer that was given no streams has the primary's section.
Sections(streams) == IF streams = <<>> THEN <<1>> ELSE streams

-----------------------------------------------------------------------------
(* closeStream, from whichever goroutine: the stream leaves the leg and      *)
(* returns its port, and the slot that bears its ID is removed.  The room    *)
(* that mixes it is not told.                                                *)
Removed(table, i) == IF i \in DOMAIN table THEN [table EXCEPT ![i] = 0] ELSE table

CloseStream(s, table) ==
    LET i == media[s].line IN
    /\ current' = [current EXCEPT ![i] = IF @ = s THEN 0 ELSE @]
    /\ media' = [media EXCEPT ![s].sock = "closed"]
    /\ slots' = Removed(table, i)

-----------------------------------------------------------------------------
(* AddStream: a socket, a stream, a slot; the offer; the answer; the media.  *)

AddStream(c, r) ==
    LET i == Len(WithPrimary) + 1  s == last + 1 IN
    /\ Starts(c) /\ i <= MaxLines /\ s <= MaxStreams
    /\ slots' = Append(WithPrimary, s)
    /\ current' = [current EXCEPT ![i] = s]
    /\ media' = [media EXCEPT ![s] = NewStream(i)]
    /\ last' = s
    /\ Goto(c, [Idle EXCEPT !.pc = "offer", !.op = "add", !.line = i,
                            !.stream = s, !.room = r])
    /\ UNCHANGED <<roomVars, wire, offers, leg>>

\* GenerateReInviteSDP, of a hold, is given no streams.
MakeOffer(c) ==
    /\ At(c, "offer")
    /\ Goto(c, [task[c] EXCEPT !.pc = "sent",
                   !.body = Sections(IF task[c].op = "hold" THEN <<>> ELSE LocalStreams(slots))])
    /\ UNCHANGED <<legVars, roomVars, wire, offers, leg>>

\* A 200 OK, with or without the section that was added; applyAnswer.
Answered(c, refused) ==
    LET body == task[c].body
        answer == IF refused THEN Removed(body, task[c].line) ELSE body IN
    /\ At(c, "sent")
    /\ refused => task[c].op = "add"
    /\ wire' = answer
    /\ media' = [s \in Streams |->
           IF \E i \in DOMAIN answer : answer[i] # 0 /\ current[i] = s
           THEN [media[s] EXCEPT !.heard = TRUE] ELSE media[s]]
    /\ IF task[c].op = "add" THEN Step(c, "answered") ELSE Done(c)
    /\ UNCHANGED <<slots, current, last, roomVars, offers, leg>>

\* Refused, timed out, or the leg is over.
OfferFails(c) ==
    /\ At(c, "sent")
    /\ IF task[c].op = "add" THEN CloseStream(task[c].stream, slots)
                             ELSE UNCHANGED <<slots, current, media>>
    /\ Done(c)
    /\ UNCHANGED <<last, roomVars, wire, offers, leg>>

StreamRefused(c) ==
    /\ At(c, "answered") /\ ~media[task[c].stream].heard
    /\ CloseStream(task[c].stream, slots) /\ Done(c)
    /\ UNCHANGED <<last, roomVars, wire, offers, leg>>

StreamAdded(c) ==
    LET s == task[c].stream IN
    /\ At(c, "answered") /\ media[s].heard
    /\ media' = [media EXCEPT ![s].setUps = @ + 1]
    /\ IF task[c].room = None THEN Done(c) ELSE Step(c, "attach")
    /\ UNCHANGED <<slots, current, last, roomVars, wire, offers, leg>>

-----------------------------------------------------------------------------
(* RemoveStream, after its room was left; Hold, Unhold and the refresh of    *)
(* the session.                                                              *)

RemoveStream(c, i) ==
    /\ Starts(c) /\ i # 1 /\ current[i] # 0
    /\ Goto(c, [Idle EXCEPT !.pc = "leave", !.op = "remove", !.line = i,
                            !.from = media[current[i]].room])
    /\ UNCHANGED <<legVars, roomVars, wire, offers, leg>>

RemoveLegStream(c) ==
    LET i == task[c].line  s == current[i] IN
    /\ At(c, "remove")
    /\ IF s = 0 THEN UNCHANGED <<slots, current, media>> /\ Done(c)
                ELSE CloseStream(s, WithPrimary) /\ Step(c, "offer")
    /\ UNCHANGED <<last, roomVars, wire, offers, leg>>

Hold(c) ==
    /\ Holds /\ Starts(c)
    /\ Goto(c, [Idle EXCEPT !.pc = "offer", !.op = "hold"])
    /\ UNCHANGED <<legVars, roomVars, wire, offers, leg>>

-----------------------------------------------------------------------------
(* attachStreamRoom: the room is looked up, the stream leaves the one it is  *)
(* in, and joins.                                                            *)

AttachStream(c, i, r) ==
    /\ Starts(c) /\ i # 1 /\ current[i] # 0 /\ roomIs[r] = "open"
    /\ Goto(c, [Idle EXCEPT !.pc = "leave", !.op = "attach", !.line = i, !.room = r,
                            !.from = media[current[i]].room])
    /\ UNCHANGED <<legVars, roomVars, wire, offers, leg>>

DetachStream(c, i) ==
    /\ Starts(c) /\ i # 1 /\ current[i] # 0 /\ media[current[i]].room # None
    /\ Goto(c, [Idle EXCEPT !.pc = "leave", !.op = "detach", !.line = i,
                            !.from = media[current[i]].room])
    /\ UNCHANGED <<legVars, roomVars, wire, offers, leg>>

\* The stream AddStream made joins the room it was asked for, if that is there.
AttachAdded(c) ==
    LET t == task[c] IN
    /\ At(c, "attach")
    /\ IF roomIs[t.room] = "open" /\ current[t.line] # 0
       THEN Goto(c, [t EXCEPT !.pc = "leave", !.from = media[current[t.line]].room])
       ELSE Done(c)
    /\ UNCHANGED <<legVars, roomVars, wire, offers, leg>>

\* SetStreamRoom goes by the ID, to the stream that bears it now.
InRoom(i, r) ==
    IF current[i] = 0 THEN media ELSE [media EXCEPT ![current[i]].room = r]

\* detachStreamRoom and, under its room's lock, removeLegStreamLocked.
MutLeave(c) ==          \* mutant: a move adds before it removes, and forgets to
    At(c, "leave") /\ UNCHANGED <<mixed, media>>

Leave(c) ==
    LET i == task[c].line  r == task[c].from IN
    /\ At(c, "leave")
    /\ IF r # None /\ roomIs[r] = "open" /\ i \in mixed[r]
       THEN mixed' = [mixed EXCEPT ![r] = @ \ {i}] /\ media' = InRoom(i, None)
       ELSE UNCHANGED <<mixed, media>>

LeaveRoom(c) ==
    /\ Leave(c)
    /\ CASE task[c].op = "remove" -> Step(c, "remove")
         [] task[c].op = "detach" -> Done(c)
         [] OTHER -> Step(c, "join")
    /\ UNCHANGED <<slots, current, last, roomIs, wire, offers, leg>>

\* AddLegStream: a stream without media yet, or closed, is refused.
JoinRoom(c) ==
    LET i == task[c].line  r == task[c].room IN
    /\ At(c, "join") /\ Done(c)
    /\ IF current[i] # 0 /\ media[current[i]].setUps > 0
       THEN mixed' = [mixed EXCEPT ![r] = @ \cup {i}] /\ media' = InRoom(i, r)
       ELSE UNCHANGED <<mixed, media>>
    /\ UNCHANGED <<slots, current, last, roomIs, wire, offers, leg>>

-----------------------------------------------------------------------------
(* ApplyRemoteOffer: the peer lists every section there is, may disable one  *)
(* or use its place again, and may add one.  closeStreamAtIndex for what is  *)
(* disabled, streamForIndex for what is not, and startAcceptedStreams.       *)

MutDropped(off, s) == FALSE   \* mutant: a disabled section keeps its stream

Dropped(off, s) == media[s].line \in off

PeerOffers(n, off) ==
    LET on == (1 .. n) \ off
        fresh == {i \in on : current[i] = 0}
        new(i) == last + Cardinality({j \in fresh : j <= i})
        gone == {s \in Streams : (\E i \in Lines : current[i] = s) /\ Dropped(off, s)}
        now == [i \in Lines |-> IF i \in fresh THEN new(i)
                                ELSE IF current[i] \in gone THEN 0 ELSE current[i]] IN
    /\ leg = "up" /\ offers < MaxOffers /\ offers' = offers + 1
    /\ Overlap \/ \A c \in Callers : ~Negotiating(c)
    /\ last + Cardinality(fresh) <= MaxStreams
    /\ last' = last + Cardinality(fresh)
    /\ current' = now
    /\ slots' = [i \in 1 .. IF n > Len(slots) THEN n ELSE Len(slots) |->
                    IF i \in on THEN now[i] ELSE IF i \in off THEN 0 ELSE slots[i]]
    /\ wire' = [i \in 1 .. n |-> IF i \in on THEN now[i] ELSE 0]
    /\ media' = [s \in Streams |->
           IF s \in gone THEN [media[s] EXCEPT !.sock = "closed"]
           ELSE IF \E i \in fresh : s = new(i)
           THEN [NewStream(CHOOSE i \in fresh : s = new(i)) EXCEPT !.heard = TRUE, !.setUps = 1]
           ELSE IF media[s].sock = "open" /\ media[s].line \in on
           THEN [media[s] EXCEPT !.heard = TRUE, !.setUps = IF @ = 0 THEN 1 ELSE @]
           ELSE media[s]]
    /\ UNCHANGED <<roomVars, leg, task>>

\* A secondary stream's read loop times out or panics.
StreamEnds(i) ==
    /\ i # 1 /\ current[i] # 0
    /\ media[current[i]].setUps > 0 /\ media[current[i]].sock = "open"
    /\ CloseStream(current[i], slots)
    /\ UNCHANGED <<last, roomVars, wire, offers, leg, task>>

-----------------------------------------------------------------------------
(* The leg ends: Hangup closes its streams' sockets, cleanupLeg takes them   *)
(* out of the rooms they name and forgets the leg.                           *)

Hangup ==
    /\ leg = "up" /\ leg' = "over"
    /\ media' = [s \in Streams |-> IF \E i \in Lines : current[i] = s
                                   THEN [media[s] EXCEPT !.sock = "closed"] ELSE media[s]]
    /\ UNCHANGED <<slots, current, last, roomVars, wire, offers, task>>

DetachLegStreams ==
    LET named(i) == {r \in Rooms : current[i] # 0 /\ media[current[i]].room = r
                                      /\ roomIs[r] = "open" /\ i \in mixed[r]} IN
    /\ leg = "over" /\ leg' = "gone"
    /\ mixed' = [r \in Rooms |-> {i \in mixed[r] : r \notin named(i)}]
    /\ media' = [s \in Streams |->
           IF \E i \in Lines : current[i] = s /\ named(i) # {}
           THEN [media[s] EXCEPT !.room = None] ELSE media[s]]
    /\ UNCHANGED <<slots, current, last, roomIs, wire, offers, task>>

\* Manager.Delete takes the room from the registry, Room.Close empties it.
DeleteRoom(r) ==
    /\ roomIs[r] = "open" /\ roomIs' = [roomIs EXCEPT ![r] = "closing"]
    /\ Overlap \/ \A c \in Callers : At(c, "idle")
    /\ UNCHANGED <<legVars, mixed, wire, offers, leg, task>>

CloseRoom(r) ==
    /\ roomIs[r] = "closing" /\ roomIs' = [roomIs EXCEPT ![r] = "gone"]
    /\ mixed' = [mixed EXCEPT ![r] = {}]
    /\ media' = [s \in Streams |->
           IF \E i \in mixed[r] : current[i] = s THEN [media[s] EXCEPT !.room = None]
                                                 ELSE media[s]]
    /\ UNCHANGED <<slots, current, last, wire, offers, leg, task>>

-----------------------------------------------------------------------------
Request(c) ==
    \/ \E r \in Rooms \cup {None} : AddStream(c, r)
    \/ MakeOffer(c) \/ OfferFails(c) \/ \E refused \in BOOLEAN : Answered(c, refused)
    \/ StreamRefused(c) \/ StreamAdded(c) \/ AttachAdded(c)
    \/ Hold(c) \/ RemoveLegStream(c) \/ LeaveRoom(c) \/ JoinRoom(c)
    \/ \E i \in Lines : \/ RemoveStream(c, i) \/ DetachStream(c, i)
                        \/ \E r \in Rooms : AttachStream(c, i, r)

Next ==
    \/ \E c \in Callers : Request(c)
    \/ \E n \in Len(wire) .. MaxLines : /\ n <= Len(wire) + 1
                                        /\ \E off \in {{}} \cup {{i} : i \in 2 .. n} : PeerOffers(n, off)
    \/ \E i \in Lines : StreamEnds(i)
    \/ Hangup \/ DetachLegStreams
    \/ \E r \in Rooms : DeleteRoom(r) \/ CloseRoom(r)

Spec == Init /\ [][Next]_vars

-----------------------------------------------------------------------------
Stream ==
    [line : 0 .. MaxLines, sock : {"none", "open", "closed"}, heard : BOOLEAN,
     setUps : 0 .. 2, room : Rooms \cup {None}]

(* Streams keep their lines: the one on line i was made for line i, whoever  *)
(* made it, and the table has none that does not exist (leg/media_stream.go).*)
TypeOK ==
    /\ media \in [Streams -> Stream] /\ last \in 1 .. MaxStreams
    /\ Len(slots) <= MaxLines /\ Len(wire) <= MaxLines
    /\ \A i \in Lines : current[i] \in 0 .. last
    /\ \A i \in Lines : current[i] # 0 => media[current[i]].line = i
    /\ \A i \in DOMAIN slots : slots[i] \in 0 .. last
    /\ mixed \in [Rooms -> SUBSET Lines] /\ offers \in 0 .. MaxOffers
    /\ roomIs \in [Rooms -> {"open", "closing", "gone"}]
    /\ leg \in {"up", "over", "gone"}

(* An offer never has fewer sections than the dialog has, describes the same *)
(* stream on each, and does not bring back one that was removed, whatever    *)
(* was refused, timed out or re-offered before (mlines.go:55-58).            *)
OffersKeepTheirLines ==
    \A c \in Callers : At(c, "sent") =>
        LET body == task[c].body IN
        /\ Len(body) >= Len(wire)
        /\ \A i \in DOMAIN wire : wire[i] = 0 => body[i] = 0
        /\ \A i \in DOMAIN body : body[i] # 0 => media[body[i]].line = i

(* An open socket of a secondary stream is one the table advertises: none is *)
(* left behind by a refusal, a failed offer, a time-out or a peer that       *)
(* disables the section (media_stream.go:494-497).                           *)
SocketsAreAdvertised ==
    \A s \in Streams : media[s].sock = "open" /\ media[s].line # 1 =>
        /\ current[media[s].line] = s
        /\ media[s].line \in DOMAIN slots /\ slots[media[s].line] = s

(* A stream on a line that had no other before is mixed into the room it     *)
(* names and no other (attachStreamRoom, AddLegStream).  Does not hold where *)
(* requests overlap the delete of a room the stream is moving out of: the    *)
(* close clears the name of the room it has moved to.                        *)
OneRoomPerStream ==
    \A r \in Rooms : \A i \in mixed[r] :
        (roomIs[r] = "open" /\ current[i] # 0
          /\ \A s \in Streams : media[s].line = i => s = current[i])
        => media[current[i]].room = r

(* Does not hold: a stream that timed out, panicked or was disabled by the   *)
(* peer is no stream of the leg any more, and stays in its room's mix.       *)
EndedLegLeavesRooms ==
    leg = "gone" /\ (\A c \in Callers : At(c, "idle"))
        => \A r \in Rooms : roomIs[r] = "open" => mixed[r] = {}

(* Does not hold where requests overlap: a re-INVITE of the peer while ours  *)
(* awaits its answer sets the new stream's media up, and so does AddStream.  *)
SetUpOnce == \A s \in Streams : media[s].setUps <= 1
=============================================================================
