-------------------------- MODULE AccountResources --------------------------
(***************************************************************************)
(* The resources of one subaccount (engine/engine.go) and the calls they   *)
(* let in.  Phone numbers are kept twice: in incomingNumbers, by which     *)
(* calls are routed, and in the list of the account, which snapshots show. *)
(* The credential lists mapped to a SIP domain are kept twice, too.        *)
(*                                                                         *)
(* Every method is one critical section of state.mu but one:               *)
(* UpdateIncomingPhoneNumber looks the number up under RLock and changes   *)
(* it under Lock.  A request that is refused changes nothing and is no     *)
(* step.                                                                   *)
(***************************************************************************)
EXTENDS FiniteSets, Integers

CONSTANTS
  Phones, Sids, Apps, Keys,   \* phone numbers; SIDs of numbers; applications; signing keys
  Domains, Names, Lists,      \* SIDs of SIP domains; domain names; credential lists
  Users, Strangers,           \* SIP user names; callers that are none of the account's numbers
  Clients,                    \* threads that update numbers
  NoPhone, NoSid, NoApp, NoName,
  MaxCalls                    \* bound: distinct calls

ASSUME NothingAssumption ==
  NoPhone \notin Phones /\ NoSid \notin Sids /\ NoApp \notin Apps /\ NoName \notin Names
ASSUME CallersAssumption == Strangers \cap Phones = {} /\ MaxCalls \in Nat

VARIABLES
  applications,          \* applications: the SIDs that were created
  number,                \* the incomingNumber records, the released ones included
  incomingNumbers,       \* incomingNumbers: phone -> record
  accountNumbers,        \* account.IncomingNumbers
  found,                 \* foundNumber of UpdateIncomingPhoneNumber
  signingKeys,           \* signingKeys
  sipDomains,            \* sipDomains: SID -> DomainName
  sipCredentialLists, sipCredentials,
  sipMappings,           \* sipAuthCallsMappings and sipAuthRegMappings
  domainMappings,        \* AuthCallsMappings and AuthRegistrationsMappings of each domain
  calls,                 \* what is known of the calls that were created
  panicked               \* the kinds of requests that ended in a panic

numberVars == <<number, incomingNumbers, accountNumbers, found>>
sipVars == <<sipDomains, sipCredentialLists, sipCredentials, sipMappings, domainMappings>>
callVars == <<calls, panicked>>
vars == <<applications, signingKeys, numberVars, sipVars, callVars>>

Record == [phone : Phones \cup {NoPhone}, app : Apps \cup {NoApp}]
Mapping == [domain : Domains, list : Lists, of : {"calls", "registrations"}]

TypeOK ==
  /\ applications \subseteq Apps /\ signingKeys \subseteq Keys
  /\ number \in [Sids -> Record]
  /\ incomingNumbers \in [Phones -> Sids \cup {NoSid}]
  /\ accountNumbers \subseteq [sid : Sids, phone : Phones, app : Apps \cup {NoApp}]
  /\ found \in [Clients -> Sids \cup {NoSid}]
  /\ sipDomains \in [Domains -> Names \cup {NoName}]
  /\ sipCredentialLists \subseteq Lists
  /\ sipCredentials \subseteq [list : Lists, user : Users]
  /\ sipMappings \subseteq Mapping
  /\ domainMappings \in [Domains -> SUBSET Mapping]
  /\ panicked \subseteq {"number", "softphone"}

Init ==
  /\ applications = {} /\ signingKeys = {}
  /\ number = [s \in Sids |-> [phone |-> NoPhone, app |-> NoApp]]
  /\ incomingNumbers = [p \in Phones |-> NoSid]
  /\ accountNumbers = {}
  /\ found = [c \in Clients |-> NoSid]
  /\ sipDomains = [d \in Domains |-> NoName]
  /\ sipCredentialLists = {} /\ sipCredentials = {}
  /\ sipMappings = {}
  /\ domainMappings = [d \in Domains |-> {}]
  /\ calls = {} /\ panicked = {}
-----------------------------------------------------------------------------
(* Applications, signing keys and phone numbers *)

Issued == {s \in Sids : number[s].phone # NoPhone}

\* Applications are never deleted.
CreateApplication(a) ==
  /\ a \notin applications
  /\ applications' = applications \cup {a}
  /\ UNCHANGED <<signingKeys, numberVars, sipVars, callVars>>

CreateNewSigningKey(k) ==
  /\ k \notin signingKeys
  /\ signingKeys' = signingKeys \cup {k}
  /\ UNCHANGED <<applications, numberVars, sipVars, callVars>>

CreateIncomingPhoneNumber(p, a) ==
  /\ incomingNumbers[p] = NoSid
  /\ a \in applications \cup {NoApp}
  /\ \E s \in Sids \ Issued :
       /\ number' = [number EXCEPT ![s] = [phone |-> p, app |-> a]]
       /\ incomingNumbers' = [incomingNumbers EXCEPT ![p] = s]
       /\ accountNumbers' = accountNumbers \cup {[sid |-> s, phone |-> p, app |-> a]}
  /\ UNCHANGED <<applications, signingKeys, found, sipVars, callVars>>

\* The records and the list when the VoiceApplication of one is set.
Reassigned(s, a) == [number EXCEPT ![s] = [phone |-> number[s].phone, app |-> a]]
Relisted(s, a) ==
  {IF n.sid = s THEN [sid |-> n.sid, phone |-> n.phone, app |-> a] ELSE n : n \in accountNumbers}

\* UpdateIncomingPhoneNumber, under RLock: the record of that SID.
FindNumber(c, p) ==
  /\ found[c] = NoSid /\ incomingNumbers[p] # NoSid
  /\ found' = [found EXCEPT ![c] = incomingNumbers[p]]
  /\ UNCHANGED <<applications, signingKeys, number, incomingNumbers, accountNumbers, sipVars, callVars>>

\* UpdateIncomingPhoneNumber, under Lock.  The record may have been released
\* in the meantime; the list of the account is searched by SID.  Without an
\* application, or with one that does not exist, nothing is changed.
UpdateToAnything(c, a) ==   \* a mutant of UpdateNumber
  /\ found[c] # NoSid
  /\ found' = [found EXCEPT ![c] = NoSid]
  /\ number' = Reassigned(found[c], a)
  /\ accountNumbers' = Relisted(found[c], a)
  /\ UNCHANGED <<applications, signingKeys, incomingNumbers, sipVars, callVars>>

UpdateByPhone(c, a) ==   \* a mutant of UpdateNumber
  /\ found[c] # NoSid
  /\ found' = [found EXCEPT ![c] = NoSid]
  /\ a \in applications \cup {NoApp}
  /\ number' = Reassigned(found[c], a)
  /\ accountNumbers' = {IF n.phone = number[found[c]].phone
                          THEN [sid |-> n.sid, phone |-> n.phone, app |-> a] ELSE n : n \in accountNumbers}
  /\ UNCHANGED <<applications, signingKeys, incomingNumbers, sipVars, callVars>>

UpdatePutsBack(c, a) ==   \* a mutant of UpdateNumber
  /\ found[c] # NoSid
  /\ found' = [found EXCEPT ![c] = NoSid]
  /\ a \in applications \cup {NoApp}
  /\ number' = Reassigned(found[c], a)
  /\ incomingNumbers' = [incomingNumbers EXCEPT ![number[found[c]].phone] = found[c]]
  /\ accountNumbers' = {n \in accountNumbers : n.phone # number[found[c]].phone}
       \cup {[sid |-> found[c], phone |-> number[found[c]].phone, app |-> a]}
  /\ UNCHANGED <<applications, signingKeys, sipVars, callVars>>

UpdateNumber(c, a) ==
  /\ found[c] # NoSid
  /\ found' = [found EXCEPT ![c] = NoSid]
  /\ IF a \in applications \cup {NoApp}
       THEN /\ number' = Reassigned(found[c], a)
            /\ accountNumbers' = Relisted(found[c], a)
       ELSE UNCHANGED <<number, accountNumbers>>
  /\ UNCHANGED <<applications, signingKeys, incomingNumbers, sipVars, callVars>>

\* The map is searched by SID, the list of the account is filtered by phone.
DeleteIncomingPhoneNumber(s) ==
  \E p \in Phones :
    /\ incomingNumbers[p] = s /\ s # NoSid
    /\ incomingNumbers' = [incomingNumbers EXCEPT ![p] = NoSid]
    /\ accountNumbers' = {n \in accountNumbers : n.phone # p}
    /\ UNCHANGED <<applications, signingKeys, number, found, sipVars, callVars>>
-----------------------------------------------------------------------------
(* SIP domains, credential lists and what maps them to each other *)

Existing == {d \in Domains : sipDomains[d] # NoName}

\* Nothing keeps two domains from having the same name.
CreateSipDomain(d, n) ==
  /\ d \notin Existing
  /\ sipDomains' = [sipDomains EXCEPT ![d] = n]
  /\ UNCHANGED <<applications, signingKeys, numberVars, sipCredentialLists, sipCredentials,
                 sipMappings, domainMappings, callVars>>

CreateSipCredentialList(l) ==
  /\ l \notin sipCredentialLists
  /\ sipCredentialLists' = sipCredentialLists \cup {l}
  /\ UNCHANGED <<applications, signingKeys, numberVars, sipDomains, sipCredentials,
                 sipMappings, domainMappings, callVars>>

CreateSipCredential(l, u) ==
  /\ l \in sipCredentialLists
  /\ sipCredentials' = sipCredentials \cup {[list |-> l, user |-> u]}
  /\ UNCHANGED <<applications, signingKeys, numberVars, sipDomains, sipCredentialLists,
                 sipMappings, domainMappings, callVars>>

\* CreateSipAuthCallsCredentialListMapping and its twin for registrations
CreateMapping(m) ==
  /\ m.domain \in Existing /\ m.list \in sipCredentialLists
  /\ sipMappings' = sipMappings \cup {m}
  /\ domainMappings' = [domainMappings EXCEPT ![m.domain] = @ \cup {m}]
  /\ UNCHANGED <<applications, signingKeys, numberVars, sipDomains, sipCredentialLists,
                 sipCredentials, callVars>>
-----------------------------------------------------------------------------
(* Calls.  sip tells of an API call whether its To is a SIP address, of a  *)
(* call that came in whether it came from one; at is the domain then.      *)

\* The caller ids an application may ask for: a number, or the From it read in
\* a call that came in, a SIP user's included.
Caller == Phones \cup Strangers \cup Users

AddCall(c) ==
  /\ calls' = calls \cup {c}
  /\ Cardinality(calls') <= MaxCalls
  /\ UNCHANGED <<applications, signingKeys, numberVars, sipVars, panicked>>

Panic(kind) ==
  /\ panicked' = panicked \cup {kind}
  /\ UNCHANGED <<applications, signingKeys, numberVars, sipVars, calls>>

Provisioned(p) == p \in Phones /\ incomingNumbers[p] # NoSid

\* createCall: validateFromNumber
CreateCall(from, sip) ==
  /\ Provisioned(from) \/ sip
  /\ AddCall([via |-> "api", from |-> from, sip |-> sip, at |-> NoName])

CreateAnyChildCall(parent, from, sip) ==   \* a mutant of CreateChildCall
  AddCall([via |-> "child", from |-> from, sip |-> sip, at |-> NoName])

CreateChildCall(parent, from, sip) ==
  /\ Provisioned(from) \/ sip \/ parent.from = from
  /\ AddCall([via |-> "child", from |-> from, sip |-> sip, at |-> NoName])

\* CreateIncomingCall dereferences the application without a check.
CreateIncomingCall(from, p) ==
  /\ Provisioned(p)
  /\ LET a == number[incomingNumbers[p]].app
     IN  /\ a # NoApp
         /\ IF a \in applications
              THEN AddCall([via |-> "number", from |-> from, sip |-> FALSE, at |-> NoName])
              ELSE Panic("number")

\* CreateIncomingCallFromSoftphone: the signature of a token is checked only
\* when its key is known, the application it names is not checked at all.
CreateIncomingCallFromSoftphone(from, key, genuine, a) ==
  /\ key \in signingKeys => genuine
  /\ IF a \in applications
       THEN AddCall([via |-> "softphone", from |-> from, sip |-> FALSE, at |-> NoName])
       ELSE Panic("softphone")

AdmitsRegistered(d, u) ==   \* a mutant of Admits
  \E m \in domainMappings[d] : [list |-> m.list, user |-> u] \in sipCredentials

\* A credential of that user is in a list mapped to the domain for calls.
Admits(d, u) ==
  \E m \in domainMappings[d] :
    m.of = "calls" /\ m.list \in sipCredentialLists /\ [list |-> m.list, user |-> u] \in sipCredentials

\* CreateIncomingCallFromSIP: of the domains with that name, the first one
\* in the order of the map decides, and that order is random.
CreateIncomingCallFromSIP(u, n) ==
  \E d \in Existing :
    /\ sipDomains[d] = n /\ Admits(d, u)
    /\ AddCall([via |-> "sip", from |-> u, sip |-> TRUE, at |-> n])
-----------------------------------------------------------------------------
Resources ==
  \/ \E a \in Apps : CreateApplication(a)
  \/ \E k \in Keys : CreateNewSigningKey(k)
  \/ \E p \in Phones, a \in Apps \cup {NoApp} : CreateIncomingPhoneNumber(p, a)
  \/ \E c \in Clients : (\E p \in Phones : FindNumber(c, p))
                        \/ (\E a \in Apps \cup {NoApp} : UpdateNumber(c, a))
  \/ \E s \in Sids : DeleteIncomingPhoneNumber(s)
  \/ \E d \in Domains, n \in Names : CreateSipDomain(d, n)
  \/ \E l \in Lists : CreateSipCredentialList(l)
  \/ \E l \in Lists, u \in Users : CreateSipCredential(l, u)
  \/ \E m \in Mapping : CreateMapping(m)

CallsIn ==
  \/ \E f \in Caller, sip \in BOOLEAN : CreateCall(f, sip)
  \/ \E o \in calls, f \in Caller, sip \in BOOLEAN : CreateChildCall(o, f, sip)
  \/ \E f \in Strangers, p \in Phones : CreateIncomingCall(f, p)
  \/ \E f \in Strangers, k \in Keys, genuine \in BOOLEAN, a \in Apps :
       CreateIncomingCallFromSoftphone(f, k, genuine, a)
  \/ \E u \in Users, n \in Names : CreateIncomingCallFromSIP(u, n)

Next == Resources \/ CallsIn

Spec == Init /\ [][Next]_vars
-----------------------------------------------------------------------------
(* Properties *)

Entry(s, p) == [sid |-> s, phone |-> p, app |-> number[s].app]

\* What Snapshot shows of the phone numbers is what ListIncomingPhoneNumber
\* answers and what incoming calls are routed by, whatever creations, updates
\* and releases came in between, updates of released numbers included.
SnapshotShowsNumbers ==
  accountNumbers = {Entry(incomingNumbers[p], p) : p \in {q \in Phones : Provisioned(q)}}

\* The application of a provisioned number exists, so that an incoming call
\* to a number never dereferences nil; only a softphone's token can do that.
OnlySoftphonesPanic == panicked \subseteq {"softphone"}

\* A caller id that the account never had came in with a caller, or over SIP,
\* and was passed on from parent to child.
CallerIdIsKnown ==
  \A c \in calls : c.via \in {"api", "child"} /\ ~c.sip =>
    \/ c.from \in {number[s].phone : s \in Issued}
    \/ \E o \in calls : o.from = c.from /\ (o.sip \/ o.via \in {"number", "softphone"})

\* A caller from a SIP domain has a credential in a list that
\* sipAuthCallsMappings maps to a domain of that name.
AdmittedByCredential ==
  \A c \in calls : c.via = "sip" =>
    \E m \in sipMappings : /\ m.of = "calls" /\ sipDomains[m.domain] = c.at
                           /\ [list |-> m.list, user |-> c.from] \in sipCredentials

\* The numbers behave as NumberRegistry says: an update of a number that was
\* released, or that was found before it was released, changes nothing.
Registry == INSTANCE NumberRegistry WITH
  owner <- incomingNumbers,
  app <- [p \in Phones |-> IF incomingNumbers[p] = NoSid THEN NoApp ELSE number[incomingNumbers[p]].app],
  issued <- Issued

ImplementsRegistry == Registry!Spec
-----------------------------------------------------------------------------
(* Not true of the code *)

\* UpdateIncomingPhoneNumber answers success for a number that is there.
UpdatesAreOfNumbers ==
  [][\A c \in Clients : found[c] # NoSid /\ found'[c] = NoSid
        => \E p \in Phones : incomingNumbers[p] = found[c]]_vars

\* Whether a SIP user is let in does not depend on the order of a map.
AdmissionIsDetermined ==
  \A u \in Users : \A d, e \in Existing :
    sipDomains[d] = sipDomains[e] /\ Admits(d, u) => Admits(e, u)

\* No request panics.
NoPanic == panicked = {}
=============================================================================
