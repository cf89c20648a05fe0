------------------------------ MODULE Registrar ------------------------------
(***************************************************************************)
(* Inbound registrations of one address of record: handleRegister and its  *)
(* authorisation (internal/sip/register.go, inbound_auth.go), the bindings *)
(* (registrar.go), the client's decision about a REGISTER that waits for   *)
(* it (internal/api/inbound_auth.go) and the forced removal                *)
(* (sip_registrations.go).  A contact stands for its canonical identity;   *)
(* what a decision grants (a lifetime cap, the owning app) and which binding *)
(* was refreshed last are left out.                                        *)
(***************************************************************************)
EXTENDS Naturals

CONSTANTS Requests,   \* REGISTER transactions under way
          CallID,     \* per request, its Call-ID
          Contacts,
          MaxChallenges, MaxBindings   \* bounds: challenges, bindings per contact

Sweeper == "sweeper"
Admin   == "admin"
Actors  == Requests \cup {Sweeper, Admin}
CallIDs == {CallID[r] : r \in Requests}
Nonces  == 1..MaxChallenges

VARIABLES
    multiple,   \* AllowMultipleContacts
    failOpen,   \* SIP_INBOUND_REGISTER_DEFAULT is "accept"
    bindings,   \* the AOR's bindings
    register,   \* per request, what it asks and how far its handler is
    decision,   \* per request, its attempt's channel (capacity 1)
    pending,    \* per Call-ID, the nonce of its challenge, or 0 (pendingAuthStore)
    challenges, \* the challenges issued so far: their nonces are 1, 2, ...
    spent,      \* per nonce, how many credentials it verified or failed
    untold,     \* per actor, the events it has to publish
    made,       \* per contact, bindings made so far: their numbers are 1, 2, ...
    over        \* per contact, the numbers of the bindings whose end was published

vars == <<multiple, failOpen, bindings, register, decision, pending, challenges, spent,
          untold, made, over>>
policy == <<multiple, failOpen>>
auth   == <<pending, challenges, spent>>
feed   == <<made, over>>

NoRequest == [pc |-> "none", todo |-> {}, bind |-> FALSE, nonce |-> 0]
Decisions == {"challenge", "reject", "accept"}
Undecided == "none"

Init ==
    /\ multiple \in BOOLEAN /\ failOpen \in BOOLEAN
    /\ bindings = {}
    /\ register = [r \in Requests |-> NoRequest]
    /\ decision = [r \in Requests |-> Undecided]
    /\ pending = [i \in CallIDs |-> 0]
    /\ challenges = 0
    /\ spent = [n \in Nonces |-> 0]
    /\ untold = [a \in Actors |-> {}]
    /\ made = [c \in Contacts |-> 0] /\ over = [c \in Contacts |-> {}]

----------------------------------------------------------------------------
(* The bindings.  Each method works under the lock and publishes after it. *)
Of(c)      == {b \in bindings : b.contact = c}
Active(c)  == [event |-> "active", contact |-> c, number |-> 0]
Expired(b) == [event |-> "expired", contact |-> b.contact, number |-> b.number]
Owe(a, bs) == untold' = [untold EXCEPT ![a] = {Expired(b) : b \in bs}]

MutReplaced(c) == {}   \* mutant: what a new contact replaces goes untold

(* Under the single-contact policy a binding replaces those of the others. *)
Replaced(c) == IF multiple THEN {} ELSE bindings \ Of(c)

(* Bind refreshes the contact's binding, or makes one. *)
Bind(a, c) ==
    LET gone  == IF multiple THEN {} ELSE bindings \ Of(c)
        fresh == gone # {} \/ Of(c) = {}
        n     == IF fresh THEN made[c] + 1 ELSE (CHOOSE b \in Of(c) : TRUE).number
    IN  /\ bindings' = (IF gone # {} THEN {} ELSE bindings \ Of(c))
                          \cup {[contact |-> c, lapsed |-> FALSE, number |-> n]}
        /\ made' = [made EXCEPT ![c] = @ + IF fresh THEN 1 ELSE 0]
        /\ untold' = [untold EXCEPT ![a] = {Expired(b) : b \in Replaced(c)} \cup {Active(c)}]
        /\ UNCHANGED over

UnbindContact(a, c) ==
    /\ bindings' = bindings \ Of(c) /\ Owe(a, Of(c))
    /\ UNCHANGED feed

MutUnbindAll(a) ==   \* mutant: the wildcard publishes and leaves the bindings there
    Owe(a, bindings) /\ UNCHANGED <<bindings, feed>>

UnbindAll(a) ==
    /\ bindings' = {} /\ Owe(a, bindings)
    /\ UNCHANGED feed

\* An actor tells the ends, in the order of the list, and then what is active.
Tell(a) ==
    \E e \in untold[a] :
        /\ e.event = "active" => untold[a] = {e}
        /\ over' = [over EXCEPT ![e.contact] = @ \cup IF e.event = "expired" THEN {e.number} ELSE {}]
        /\ untold' = [untold EXCEPT ![a] = @ \ {e}]
        /\ UNCHANGED <<policy, bindings, register, decision, auth, made>>

(* A binding's granted lifetime is over; the sweeper finds it at its tick.  *)
Lapse(c) ==
    /\ \E b \in Of(c) : ~b.lapsed
    /\ bindings' = {[b EXCEPT !.lapsed = @ \/ b.contact = c] : b \in bindings}
    /\ UNCHANGED <<policy, register, decision, auth, untold, feed>>

Sweep ==
    LET lapsed == {b \in bindings : b.lapsed} IN
    /\ untold[Sweeper] = {} /\ lapsed # {}
    /\ bindings' = bindings \ lapsed /\ Owe(Sweeper, lapsed)
    /\ UNCHANGED <<policy, register, decision, auth, feed>>

(* doDeleteRegistration, of one contact or of the address. *)
ForceUnbind ==
    /\ untold[Admin] = {} /\ bindings # {}
    /\ UnbindAll(Admin) \/ \E c \in Contacts : Of(c) # {} /\ UnbindContact(Admin, c)
    /\ UNCHANGED <<policy, register, decision, auth>>

----------------------------------------------------------------------------
(* handleRegister.                                                          *)
At(r, pc) == register[r].pc = pc

Respond(r) == register' = [register EXCEPT ![r] = NoRequest]

(* A REGISTER arrives, with no credential or with one for a nonce that was  *)
(* issued.  What it asks for is an input of BindNext to Query.              *)
Arrive(r) ==
    /\ At(r, "none")
    /\ \E nonce \in 0..challenges :
          register' = [register EXCEPT ![r] = [NoRequest EXCEPT !.pc = "arrived", !.nonce = nonce]]
    /\ UNCHANGED <<policy, bindings, decision, auth, untold, feed>>

(* A query is answered with the bindings and is not authorised. *)
Query(r) ==
    /\ At(r, "arrived") /\ Respond(r)
    /\ UNCHANGED <<policy, bindings, decision, auth, untold, feed>>

(* HandleRegisterAttempt: the attempt is published, and the handler waits    *)
(* for a decision or for the time-out.                                      *)
Consult(r) == register' = [register EXCEPT ![r].pc = "wait"]

Unchallenged(r) ==
    /\ At(r, "arrived") /\ register[r].nonce = 0 /\ Consult(r)
    /\ UNCHANGED <<policy, bindings, decision, auth, untold, feed>>

(* A challenge is taken whatever the credential turns out to be. *)
Take(r) == [pending EXCEPT ![CallID[r]] = 0]

(* VerifyInboundAuth: a challenge that is gone, too old or another one than  *)
(* the credential answers leads to a fresh consultation.                     *)
Verify(r) ==
    /\ At(r, "arrived") /\ register[r].nonce # 0
    /\ LET challenge == pending[CallID[r]]
       IN  \/ /\ challenge = register[r].nonce
              /\ spent' = [spent EXCEPT ![challenge] = @ + 1]
              /\ \/ register' = [register EXCEPT ![r].pc = "admitted"]
                 \/ Respond(r)
           \/ Consult(r) /\ UNCHANGED spent
    /\ pending' = Take(r)
    /\ UNCHANGED <<policy, bindings, decision, challenges, untold, feed>>

(* decideRegisterAttempt: accepted with 202; a second decision is dropped.   *)
Decide(r, d) ==
    /\ At(r, "wait") /\ decision[r] = Undecided
    /\ decision' = [decision EXCEPT ![r] = d]
    /\ UNCHANGED <<policy, bindings, register, auth, untold, feed>>

(* What the handler does with the decision. *)
Apply(r, d) ==
    CASE d = "accept" ->
             /\ register' = [register EXCEPT ![r].pc = "admitted"]
             /\ UNCHANGED <<pending, challenges>>
      [] d = "reject" -> Respond(r) /\ UNCHANGED <<pending, challenges>>
      [] d = "challenge" ->
             /\ challenges < MaxChallenges /\ challenges' = challenges + 1
             /\ pending' = [pending EXCEPT ![CallID[r]] = challenges + 1]
             /\ Respond(r)

(* The decision, or the fallback: select takes either when both are ready.   *)
Decided(r) ==
    /\ At(r, "wait") /\ decision[r] # Undecided /\ Apply(r, decision[r])
    /\ decision' = [decision EXCEPT ![r] = Undecided]
    /\ UNCHANGED <<policy, bindings, spent, untold, feed>>

ConsultTimeout(r) ==
    /\ At(r, "wait")
    /\ Apply(r, IF failOpen THEN "accept" ELSE "reject")
    /\ decision' = [decision EXCEPT ![r] = Undecided]
    /\ UNCHANGED <<policy, bindings, spent, untold, feed>>

(* What an admitted REGISTER asks for: contacts to bind or to remove, or    *)
(* "Contact: *", which removes all of them and is refused unless it expires. *)
Contents(r) ==
    /\ At(r, "admitted")
    /\ \E todo \in SUBSET Contacts \ {{}}, bind \in BOOLEAN :
          register' = [register EXCEPT ![r].pc = "bind", ![r].todo = todo, ![r].bind = bind]
    /\ UNCHANGED <<policy, bindings, decision, auth, untold, feed>>

UnbindWildcard(r) ==
    /\ At(r, "admitted")
    /\ UnbindAll(r) /\ register' = [register EXCEPT ![r].pc = "bind"]
    /\ UNCHANGED <<policy, decision, auth>>

BadRequest(r) ==
    /\ At(r, "admitted") /\ Respond(r)
    /\ UNCHANGED <<policy, bindings, decision, auth, untold, feed>>

(* The next contact, once the events about the last one are out. *)
Advance(r, c) == register' = [register EXCEPT ![r].todo = @ \ {c}]

BindNext(r, c) ==
    /\ At(r, "bind") /\ untold[r] = {} /\ c \in register[r].todo /\ register[r].bind
    /\ made[c] < MaxBindings[c] \/ Of(c) # {}
    /\ Bind(r, c) /\ Advance(r, c)
    /\ UNCHANGED <<policy, decision, auth>>

UnbindNext(r, c) ==
    /\ At(r, "bind") /\ untold[r] = {} /\ c \in register[r].todo /\ ~register[r].bind
    /\ UnbindContact(r, c) /\ Advance(r, c)
    /\ UNCHANGED <<policy, decision, auth>>

Finish(r) ==
    /\ At(r, "bind") /\ untold[r] = {} /\ register[r].todo = {} /\ Respond(r)
    /\ UNCHANGED <<policy, bindings, decision, auth, untold, feed>>

----------------------------------------------------------------------------
Handle(r) ==
    \/ Query(r) \/ Unchallenged(r) \/ Verify(r) \/ Decided(r) \/ ConsultTimeout(r)
    \/ Contents(r) \/ UnbindWildcard(r) \/ BadRequest(r)
    \/ (\E c \in Contacts : BindNext(r, c) \/ UnbindNext(r, c)) \/ Finish(r)

Next ==
    \/ \E r \in Requests : Arrive(r) \/ Handle(r) \/ \E d \in Decisions : Decide(r, d)
    \/ \E a \in Actors : Tell(a)
    \/ \E c \in Contacts : Lapse(c)
    \/ Sweep \/ ForceUnbind

Spec == Init /\ [][Next]_vars

----------------------------------------------------------------------------
TypeOK ==
    /\ bindings \subseteq [contact : Contacts, lapsed : BOOLEAN, number : Nat]
    /\ \A r \in Requests : register[r].pc \in {"none", "arrived", "wait", "admitted", "bind"}
    /\ decision \in [Requests -> Decisions \cup {Undecided}]
    /\ \A i \in CallIDs : pending[i] \in 0..challenges
    /\ \A c \in Contacts : made[c] \in Nat /\ over[c] \subseteq 1..made[c]

(* Where the n-th binding of a contact is: there, ended and to be told by some actor, or told. *)
Places(c, n) ==
    {"live" : b \in {b \in Of(c) : b.number = n}} \cup {"over" : i \in over[c] \cap {n}}
      \cup {a \in Actors : Expired([contact |-> c, number |-> n]) \in untold[a]}

(* A contact has one binding, the policy's limit holds, and every binding   *)
(* that was ever made is there, or its end was published, or is about to be *)
(* by exactly one of those who could have ended it: a refresh, a removal, a *)
(* sweep and a forced removal race for it (registrar.go, Bind to sweep).    *)
BindingsAreAccounted ==
    /\ multiple \/ \A b, d \in bindings : b = d
    /\ \A b, d \in bindings : b.contact = d.contact => b = d
    /\ \A c \in Contacts : \A n \in 1..made[c] : \E p \in Places(c, n) : Places(c, n) = {p}

(* "A challenge is single-use: each issued nonce verifies (or fails)        *)
(* exactly one retry" (inbound_auth.go, take).                              *)
ChallengeIsSpent == \A n \in Nonces : spent[n] <= 1
=============================================================================
