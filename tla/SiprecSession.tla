---------------------------- MODULE SiprecSession ----------------------------
(***************************************************************************)
(* An inbound recording session (siprec/state.go, siprec/verify.go,        *)
(* api/siprec.go, api/siprec_record.go): the metadata its documents        *)
(* accumulate, the warnings about it, the room its streams are attached    *)
(* to, the capture of its streams, and its teardown.  A label names one    *)
(* stream, so a stream stands for both, and a participant for its own      *)
(* label.                                                                  *)
(***************************************************************************)
EXTENDS Naturals, SequencesExt

CONSTANTS
    Participants, Streams, NoOne,
    Docs,         \* metadata documents, of the form Doc
    FirstDoc,     \* the one the INVITE carries
    Requests,     \* requests that start a recording
    OwnRoom,      \* SIPREC_ROOM_MODE: per_session, else fixed
    Mismatch,     \* may an offer's sections differ from the streams the metadata has?
    MaxUpdates,   \* bound: re-INVITEs and UPDATEs with metadata
    EarlyUpdates, \* may an update come before the streams are in the room?
    EarlyEnds,    \* may the teardown start before they are?
    Overlap       \* may two recordings start at a time, or one and the teardown?

Claims == [by : Participants, stream : Streams, gone : BOOLEAN]
Doc    == [partial : BOOLEAN, parties : SUBSET Participants, streams : SUBSET Streams,
           sends : Seq(Claims), left : SUBSET Participants]

VARIABLES
    meta,      \* State
    warnings,  \* State.warnings
    sections,  \* the streams the leg has negotiated
    role,      \* per stream in the room, the participant it has as its role
    room,      \* "none", "made" or "deleted"
    session,   \* siprecSessions' entry: listed, and its roomID is set
    handler,   \* HandleSIPRECInbound, where it stands and what is to attach
    update,    \* applySIPRECMetadata, likewise
    updates,   \* updates so far
    end,       \* cleanupLeg
    told,      \* siprec.session_started and _ended published, in order
    tap,       \* per stream, the recording its tap feeds
    recording, \* siprecRecordings' entry
    start      \* per request, startSIPRECLegRecording and what it captures

vars == <<meta, warnings, sections, role, room, session, handler, update, updates,
          end, told, tap, recording, start>>
recordVars == <<tap, recording, start>>
roomVars   == <<role, room>>

NoMeta == [parties |-> {}, streams |-> {}, sender |-> [s \in Streams |-> NoOne],
           rivals |-> [s \in Streams |-> {}], claimed |-> [s \in Streams |-> NoOne]]

-----------------------------------------------------------------------------
(* State.Apply. *)

\* One association of ParticipantStreams.
Claim(m, c) ==
    CASE c.gone ->
           [m EXCEPT !.sender[c.stream] = NoOne, !.streams = @ \ {c.stream},
                     !.rivals[c.stream] = {}]
      [] ~c.gone /\ m.claimed[c.stream] = NoOne ->
           [m EXCEPT !.sender[c.stream] = c.by, !.claimed[c.stream] = c.by,
                     !.rivals[c.stream] = {}]
      [] OTHER ->
           [m EXCEPT !.rivals[c.stream] = @ \cup ({c.by} \ {m.claimed[c.stream]})]

\* ParticipantSessions: who left goes with what he was sending.
MutLeave(m, left) == [m EXCEPT !.parties = @ \ left]     \* mutant: keeps his streams

Leave(m, left) ==
    LET his == {s \in Streams : m.sender[s] \in left}
    IN  [m EXCEPT !.parties = @ \ left, !.streams = @ \ his,
                  !.sender = [s \in Streams |-> IF s \in his THEN NoOne ELSE @[s]],
                  !.rivals = [s \in Streams |-> IF s \in his THEN {} ELSE @[s] \ left]]

Apply(m, d) ==
    LET base   == IF d.partial THEN m ELSE NoMeta
        listed == [base EXCEPT !.parties = @ \cup d.parties, !.streams = @ \cup d.streams]
        bound  == FoldLeft(Claim, listed, d.sends)
    IN  [Leave(bound, d.left) EXCEPT !.claimed = NoMeta.claimed]

\* rebindLocked and ParticipantForLabel.
ParticipantOf(m, s) ==
    IF s \in m.streams /\ m.sender[s] \in m.parties THEN m.sender[s] ELSE NoOne

\* Delta.Changed: only who and what is listed counts.
Changed(m, n) == m.parties # n.parties \/ m.streams # n.streams

\* Verify of the merged session against the offer's labelled sections.
ClaimsOn(m, s) == ({m.sender[s]} \ {NoOne}) \cup m.rivals[s]

Verify(m, offered) ==
    {<<"ambiguous_sender", s>> : s \in {x \in m.streams : Cardinality(ClaimsOn(m, x)) > 1}}
    \cup {<<"unknown_label", s>> : s \in IF offered = {} THEN {} ELSE m.streams \ offered}
    \cup {<<"unclaimed_label", s>> :
              s \in {x \in m.streams : /\ offered = {} \/ x \in offered
                                       /\ ClaimsOn(m, x) = {}}}

Init ==
    /\ meta = NoMeta /\ warnings = {} /\ sections = FirstDoc.streams
    /\ role = [s \in {} |-> NoOne] /\ room = "none"
    /\ session = [listed |-> FALSE, inRoom |-> FALSE]
    /\ handler = [pc |-> "invite", todo |-> {}]
    /\ update = [pc |-> "idle", todo |-> {}] /\ updates = 0
    /\ end = "no" /\ told = <<>>
    /\ tap = [s \in Streams |-> NoOne] /\ recording = NoOne
    /\ start = [q \in Requests |-> [pc |-> "idle", captures |-> {}, paused |-> FALSE]]

-----------------------------------------------------------------------------
(* HandleSIPRECInbound. *)

At(pc) == handler.pc = pc
Goto(pc) == handler' = [handler EXCEPT !.pc = pc]

Invite ==
    /\ At("invite") /\ Goto("answer")
    /\ meta' = Apply(meta, FirstDoc) /\ warnings' = Verify(meta', sections)
    /\ session' = [session EXCEPT !.listed = TRUE]
    /\ UNCHANGED <<sections, roomVars, update, updates, end, told, recordVars>>

\* awaitInboundAnswer and Answer: not once the leg has hung up.
Answered ==
    /\ At("answer") /\ end = "no" /\ Goto("started")
    /\ UNCHANGED <<meta, warnings, sections, roomVars, session, update, updates, end,
                   told, recordVars>>

NotAnswered ==
    /\ At("answer") /\ Goto("done")
    /\ end' = IF end = "no" THEN "detach" ELSE end
    /\ UNCHANGED <<meta, warnings, sections, roomVars, session, update, updates, told,
                   recordVars>>

PublishStarted ==
    /\ At("started") /\ told' = Append(told, "started") /\ Goto("room")
    /\ UNCHANGED <<meta, warnings, sections, roomVars, session, update, updates, end,
                   recordVars>>

\* attachSIPRECRooms.
CreateRoom ==
    /\ At("room") /\ handler' = [pc |-> "attach", todo |-> sections] /\ room' = "made"
    /\ UNCHANGED <<meta, warnings, sections, role, session, update, updates, end, told,
                   recordVars>>

\* AddLegStream, of a stream the leg still has.
Attach(s, r) ==
    role' = IF s \in sections THEN [x \in (DOMAIN role) \cup {s} |-> IF x = s THEN r ELSE role[x]]
                              ELSE role

AttachNext(s) ==
    /\ At("attach") /\ s \in handler.todo
    /\ Attach(s, ParticipantOf(meta, s))
    /\ handler' = [handler EXCEPT !.todo = @ \ {s}]
    /\ UNCHANGED <<meta, warnings, sections, room, session, update, updates, end, told,
                   recordVars>>

MutKeepRoom == session' = session     \* mutant: forgets the room it made

KeepRoom == session' = [session EXCEPT !.inRoom = TRUE]

Attached ==
    /\ At("attach") /\ handler.todo = {} /\ Goto("done")
    /\ IF DOMAIN role = {} /\ OwnRoom THEN room' = "deleted" /\ UNCHANGED session
                                      ELSE KeepRoom /\ UNCHANGED room
    /\ UNCHANGED <<meta, warnings, sections, role, update, updates, end, told, recordVars>>

-----------------------------------------------------------------------------
(* HandleReInvite and HandleUpdate: the offer is applied, and then the       *)
(* metadata.  A section the peer disables takes its stream out of its room.  *)
Offers(d) == IF Mismatch THEN SUBSET Streams ELSE {Apply(meta, d).streams}

Update(d, offered) ==
    /\ update.pc = "idle" /\ updates < MaxUpdates /\ ~At("invite")
    /\ end \in {"no", "detach"} /\ (EarlyUpdates \/ At("done"))
    /\ sections' = offered
    /\ role' = [s \in (DOMAIN role) \cap offered |-> role[s]]
    /\ updates' = updates + 1
    /\ IF session.listed
         THEN /\ meta' = Apply(meta, d) /\ warnings' = Verify(meta', offered)
              /\ update' = IF Changed(meta, meta') THEN [pc |-> "sync", todo |-> {}]
                                                   ELSE update
         ELSE UNCHANGED <<meta, warnings, update>>
    /\ UNCHANGED <<room, session, handler, end, told, recordVars>>

\* syncSIPRECRooms.
Sync ==
    /\ update.pc = "sync"
    /\ update' = IF session.inRoom /\ room = "made"
                   THEN [pc |-> "attach", todo |-> sections]
                   ELSE [pc |-> "idle", todo |-> {}]
    /\ UNCHANGED <<meta, warnings, sections, roomVars, session, handler, updates, end, told,
                   recordVars>>

SyncNext(s) ==
    /\ update.pc = "attach" /\ s \in update.todo
    /\ Attach(s, ParticipantOf(meta, s))
    /\ update' = [update EXCEPT !.todo = @ \ {s}]
    /\ UNCHANGED <<meta, warnings, sections, room, session, handler, updates, end, told,
                   recordVars>>

Synced ==
    /\ update.pc = "attach" /\ update.todo = {} /\ update' = [update EXCEPT !.pc = "idle"]
    /\ UNCHANGED <<meta, warnings, sections, roomVars, session, handler, updates, end, told,
                   recordVars>>

-----------------------------------------------------------------------------
(* The recording of the session. *)

Starting(q) == start[q].pc \in {"check", "tap", "put"}

\* doStartLegRecording: the session is looked up, and a recording of it.
RequestRecording(q) ==
    /\ start[q].pc = "idle" /\ end = "no" /\ At("done")
    /\ Overlap \/ \A p \in Requests : ~Starting(p)
    /\ start' = [start EXCEPT ![q] =
                    [pc |-> IF session.listed /\ recording = NoOne THEN "tap" ELSE "refused",
                     captures |-> {}, paused |-> FALSE]]
    /\ UNCHANGED <<meta, warnings, sections, roomVars, session, handler, update, updates,
                   end, told, tap, recording>>

\* startSIPRECRecording: a tap and a recorder per stream; none is refused.
TapStreams(q) ==
    /\ start[q].pc = "tap"
    /\ tap' = [s \in Streams |-> IF s \in sections THEN q ELSE tap[s]]
    /\ start' = [start EXCEPT ![q] =
                    [@ EXCEPT !.pc = IF sections = {} THEN "refused" ELSE "put",
                              !.captures = sections]]
    /\ UNCHANGED <<meta, warnings, sections, roomVars, session, handler, update, updates,
                   end, told, recording>>

PutRecording(q) ==
    /\ start[q].pc = "put" /\ recording' = q
    /\ start' = [start EXCEPT ![q].pc = "running"]
    /\ UNCHANGED <<meta, warnings, sections, roomVars, session, handler, update, updates,
                   end, told, tap>>

SetPaused(paused) ==
    /\ recording # NoOne /\ start[recording].paused # paused
    /\ start' = [start EXCEPT ![recording].paused = paused]
    /\ UNCHANGED <<meta, warnings, sections, roomVars, session, handler, update, updates,
                   end, told, tap, recording>>

\* stopSIPRECLegRecording and stopAll; a tap is cleared whoever it feeds.
MutStopAll == tap' = tap      \* mutant: leaves the taps

StopAll ==
    tap' = [s \in Streams |->
               IF recording # NoOne /\ s \in start[recording].captures THEN NoOne ELSE tap[s]]

Stop ==
    /\ StopAll /\ recording' = NoOne
    /\ start' = IF recording = NoOne THEN start
                ELSE [start EXCEPT ![recording] = [@ EXCEPT !.pc = "stopped", !.captures = {}]]

StopRecording ==
    /\ recording # NoOne /\ Stop
    /\ UNCHANGED <<meta, warnings, sections, roomVars, session, handler, update, updates,
                   end, told>>

-----------------------------------------------------------------------------
(* cleanupLeg, of whoever ends the leg first. *)

End ==
    /\ end = "no" /\ ~At("invite") /\ end' = "detach"
    /\ EarlyEnds \/ handler.pc \in {"answer", "done"}
    /\ Overlap \/ \A q \in Requests : ~Starting(q)
    /\ UNCHANGED <<meta, warnings, sections, roomVars, session, handler, update, updates,
                   told, recordVars>>

Detach ==
    /\ end = "detach" /\ end' = "stop" /\ role' = [s \in {} |-> NoOne]
    /\ UNCHANGED <<meta, warnings, sections, room, session, handler, update, updates, told,
                   recordVars>>

EndRecording ==
    /\ end = "stop" /\ end' = "drop" /\ Stop
    /\ UNCHANGED <<meta, warnings, sections, roomVars, session, handler, update, updates,
                   told>>

\* cleanupSIPRECSession.
DropSession ==
    /\ end = "drop" /\ end' = "over" /\ session' = [session EXCEPT !.listed = FALSE]
    /\ told' = IF session.listed THEN Append(told, "ended") ELSE told
    /\ room' = IF session.listed /\ session.inRoom /\ OwnRoom THEN "deleted" ELSE room
    /\ UNCHANGED <<meta, warnings, sections, role, handler, update, updates, recordVars>>

-----------------------------------------------------------------------------
Handler == \/ Invite \/ Answered \/ NotAnswered \/ PublishStarted \/ CreateRoom \/ Attached
           \/ \E s \in Streams : AttachNext(s)
Updates == Sync \/ Synced \/ \E s \in Streams : SyncNext(s)
Teardown == Detach \/ EndRecording \/ DropSession
Recording == \/ \E q \in Requests : RequestRecording(q) \/ TapStreams(q) \/ PutRecording(q)
             \/ \E paused \in BOOLEAN : SetPaused(paused)
             \/ StopRecording

Next == \/ Handler \/ Updates \/ Teardown \/ Recording \/ End
        \/ \E d \in Docs : \E offered \in Offers(d) : Update(d, offered)

Spec == Init /\ [][Next]_vars

-----------------------------------------------------------------------------
(* Every variable keeps its type, and the session is told ended once.        *)
TypeOK ==
    /\ meta.parties \subseteq Participants /\ meta.streams \subseteq Streams
    /\ meta.sender \in [Streams -> Participants \cup {NoOne}]
    /\ meta.rivals \in [Streams -> SUBSET Participants]
    /\ sections \subseteq Streams /\ DOMAIN role \subseteq Streams
    /\ \A s \in DOMAIN role : role[s] \in Participants \cup {NoOne}
    /\ room \in {"none", "made", "deleted"}
    /\ session \in [listed : BOOLEAN, inRoom : BOOLEAN]
    /\ handler.pc \in {"invite", "answer", "started", "room", "attach", "done"}
    /\ update.pc \in {"idle", "sync", "attach"} /\ updates \in 0 .. MaxUpdates
    /\ end \in {"no", "detach", "stop", "drop", "over"}
    /\ Len(SelectSeq(told, LAMBDA e : e = "ended")) <= 1
    /\ tap \in [Streams -> Requests \cup {NoOne}] /\ recording \in Requests \cup {NoOne}
    /\ \A q \in Requests : start[q].captures \subseteq Streams

Settled == At("done") /\ update.pc = "idle"

(* Once an update has been applied, each stream of the leg is in the         *)
(* session's room under the participant the metadata gives it (siprec.go).   *)
RolesFollowMetadata ==
    Settled /\ end = "no" /\ session.inRoom =>
        /\ DOMAIN role = sections
        /\ \A s \in sections : role[s] = ParticipantOf(meta, s)

(* A participant that left sends nothing, whatever document says so, and a   *)
(* partial document leaves what it does not speak of as it was, a conflict   *)
(* over a stream included (state.go:146-148).                                *)
DocumentsAreMerged ==
    \A d \in Docs :
        LET after == Apply(meta, d)
            named == d.streams \cup {d.sends[i].stream : i \in DOMAIN d.sends}
        IN  /\ \A s \in after.streams : ClaimsOn(after, s) \cap d.left = {}
            /\ d.partial => \A s \in meta.streams \ named :
                   meta.sender[s] \notin d.left =>
                       /\ s \in after.streams /\ after.sender[s] = meta.sender[s]
                       /\ after.rivals[s] = meta.rivals[s] \ d.left

(* A session that is over leaves no room of its own, no entry and no tap,    *)
(* and was told ended last (siprec.go, siprec_record.go).                    *)
NothingIsLeft ==
    At("done") /\ end = "over" =>
        /\ room = "made" => ~OwnRoom
        /\ ~session.listed /\ told # <<>> /\ told[Len(told)] = "ended"
        /\ \A s \in Streams : tap[s] = NoOne

(* Does not hold: a partial document that hands a stream over, the new       *)
(* sender named before the old one's departure, removes the stream.          *)
HandoverKeepsStream ==
    \A d \in Docs, s \in Streams :
        (\E i \in DOMAIN d.sends : d.sends[i].stream = s /\ ~d.sends[i].gone)
        /\ s \in meta.streams => s \in Apply(meta, d).streams
=============================================================================
