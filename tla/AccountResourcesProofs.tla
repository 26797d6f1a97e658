----------------------- MODULE AccountResourcesProofs -----------------------
(***************************************************************************)
(* Proofs about AccountResources, for every set of phones, SIDs, clients,  *)
(* applications, domains, lists and users.                                 *)
(***************************************************************************)
EXTENDS AccountResources, TLAPS

\* A provisioned phone is the one its record names.
RecordsKnowTheirPhone ==
  \A p \in Phones : incomingNumbers[p] # NoSid => number[incomingNumbers[p]].phone = p

\* No record names an application that does not exist, a released one neither:
\* UpdateIncomingPhoneNumber may be about to answer for it.
ApplicationsExist == \A s \in Sids : number[s].app \in applications \cup {NoApp}

\* SnapshotShowsNumbers, entry by entry and phone by phone.
EntriesAreProvisioned ==
  \A e \in accountNumbers :
    incomingNumbers[e.phone] = e.sid /\ number[e.sid].app = e.app
ProvisionedAreEntries ==
  \A p \in Phones : incomingNumbers[p] # NoSid => Entry(incomingNumbers[p], p) \in accountNumbers

NumberInv ==
  /\ TypeOK
  /\ RecordsKnowTheirPhone
  /\ ApplicationsExist
  /\ EntriesAreProvisioned
  /\ ProvisionedAreEntries

LEMMA InitNumberInv == Init => NumberInv
  BY NothingAssumption
     DEF Init, NumberInv, TypeOK, Record, Mapping, RecordsKnowTheirPhone, ApplicationsExist,
         EntriesAreProvisioned, ProvisionedAreEntries

LEMMA NumberInvShows == NumberInv => SnapshotShowsNumbers
<1> SUFFICES ASSUME NumberInv PROVE SnapshotShowsNumbers
  OBVIOUS
<1>1. \A e \in accountNumbers :
        e.phone \in Phones /\ e.sid # NoSid /\ e = [sid |-> e.sid, phone |-> e.phone, app |-> e.app]
  BY NothingAssumption DEF NumberInv, TypeOK
<1>2. \A e \in accountNumbers : \E p \in {q \in Phones : Provisioned(q)} : e = Entry(incomingNumbers[p], p)
  BY <1>1 DEF NumberInv, EntriesAreProvisioned, Entry, Provisioned
<1> QED BY <1>2 DEF NumberInv, ProvisionedAreEntries, SnapshotShowsNumbers, Provisioned
-----------------------------------------------------------------------------
(* What each action does to the numbers *)

\* A new application, key, SIP resource or call leaves the numbers alone.
LEMMA OthersKeepNumbers ==
  ASSUME NumberInv, TypeOK', UNCHANGED <<number, incomingNumbers, accountNumbers>>,
         applications \subseteq applications'
  PROVE  NumberInv'
  BY DEF NumberInv, RecordsKnowTheirPhone, ApplicationsExist, EntriesAreProvisioned,
         ProvisionedAreEntries, Entry

LEMMA CreateNumberInv ==
  ASSUME NumberInv, NEW p \in Phones, NEW a \in Apps \cup {NoApp}, CreateIncomingPhoneNumber(p, a)
  PROVE  NumberInv'
<1> USE DEF NumberInv, CreateIncomingPhoneNumber, numberVars, sipVars, callVars
<1>1. PICK s \in Sids \ Issued :
        /\ number' = [number EXCEPT ![s] = [phone |-> p, app |-> a]]
        /\ incomingNumbers' = [incomingNumbers EXCEPT ![p] = s]
        /\ accountNumbers' = accountNumbers \cup {[sid |-> s, phone |-> p, app |-> a]}
  OBVIOUS
<1>2. /\ number \in [Sids -> Record] /\ incomingNumbers \in [Phones -> Sids \cup {NoSid}]
      /\ number[s].phone = NoPhone /\ s # NoSid /\ incomingNumbers[p] = NoSid
  BY <1>1, NothingAssumption DEF TypeOK, Issued
<1>3. \A q \in Phones : incomingNumbers[q] # s
  BY <1>2, NothingAssumption DEF RecordsKnowTheirPhone
<1>4. TypeOK'
  BY <1>1 DEF TypeOK, Record, Mapping
<1>5. RecordsKnowTheirPhone'
  BY <1>1, <1>2, <1>3 DEF RecordsKnowTheirPhone
<1>6. ApplicationsExist'
  BY <1>1, <1>2 DEF ApplicationsExist
<1>7. \A e \in accountNumbers : /\ e.phone \in Phones /\ e.sid \in Sids /\ e.sid # NoSid
                                /\ e.phone # p /\ e.sid # s
  BY <1>2, <1>3, NothingAssumption DEF TypeOK, EntriesAreProvisioned
<1>8. EntriesAreProvisioned'
  BY <1>1, <1>2, <1>7 DEF EntriesAreProvisioned
<1>9. ProvisionedAreEntries'
  BY <1>1, <1>2, <1>3 DEF ProvisionedAreEntries, Entry
<1> QED BY <1>4, <1>5, <1>6, <1>8, <1>9

LEMMA FindNumberInv ==
  ASSUME NumberInv, NEW c \in Clients, NEW p \in Phones, FindNumber(c, p)
  PROVE  NumberInv'
<1>1. TypeOK'
  BY DEF NumberInv, FindNumber, numberVars, sipVars, callVars, TypeOK
<1> QED BY <1>1, OthersKeepNumbers DEF FindNumber

LEMMA UpdateNumberInv ==
  ASSUME NumberInv, NEW c \in Clients, NEW a \in Apps \cup {NoApp}, UpdateNumber(c, a)
  PROVE  NumberInv'
<1> DEFINE s == found[c]
<1> USE DEF NumberInv, UpdateNumber, numberVars, sipVars, callVars
<1>1. s \in Sids /\ number \in [Sids -> Record] /\ incomingNumbers \in [Phones -> Sids \cup {NoSid}]
  BY DEF TypeOK
<1>2. CASE a \notin applications \cup {NoApp}
  <2>1. TypeOK'
    BY <1>2 DEF TypeOK
  <2> QED BY <1>2, <2>1, OthersKeepNumbers
<1>3. CASE a \in applications \cup {NoApp}
  <2>1. /\ number' = Reassigned(s, a)
        /\ accountNumbers' = {IF n.sid = s THEN [sid |-> n.sid, phone |-> n.phone, app |-> a] ELSE n : n \in accountNumbers}
        /\ UNCHANGED <<incomingNumbers, applications>>
    BY <1>3 DEF Relisted
  <2>2. /\ number'[s].phone = number[s].phone /\ number'[s].app = a
        /\ \A t \in Sids : t # s => number'[t] = number[t]
    BY <1>1, <2>1 DEF Record, Reassigned
  <2>3. accountNumbers' \subseteq [sid : Sids, phone : Phones, app : Apps \cup {NoApp}]
    BY <2>1 DEF TypeOK
  <2>4. TypeOK'
    BY <1>1, <1>3, <2>1, <2>3 DEF TypeOK, Record, Reassigned, Mapping
  <2>5. RecordsKnowTheirPhone'
    BY <1>1, <2>1, <2>2 DEF RecordsKnowTheirPhone
  <2>6. ApplicationsExist'
    BY <1>1, <1>3, <2>1, <2>2 DEF ApplicationsExist
  <2>7. EntriesAreProvisioned'
    <3> SUFFICES ASSUME NEW e \in accountNumbers'
                 PROVE  incomingNumbers[e.phone] = e.sid /\ number'[e.sid].app = e.app
      BY <2>1 DEF EntriesAreProvisioned
    <3>1. PICK n \in accountNumbers : e = IF n.sid = s THEN [sid |-> n.sid, phone |-> n.phone, app |-> a] ELSE n
      BY <2>1
    <3>2. /\ n \in [sid : Sids, phone : Phones, app : Apps \cup {NoApp}]
          /\ incomingNumbers[n.phone] = n.sid /\ number[n.sid].app = n.app
      BY DEF TypeOK, EntriesAreProvisioned
    <3>3. e.phone = n.phone /\ e.sid = n.sid /\ e.app = IF n.sid = s THEN a ELSE n.app
      BY <3>1, <3>2
    <3> QED BY <2>2, <3>2, <3>3
  <2>8. ProvisionedAreEntries'
    <3> SUFFICES ASSUME NEW p \in Phones, incomingNumbers[p] # NoSid
                 PROVE  [sid |-> incomingNumbers[p], phone |-> p, app |-> number'[incomingNumbers[p]].app]
                          \in accountNumbers'
      BY <2>1 DEF ProvisionedAreEntries, Entry
    <3> DEFINE n == [sid |-> incomingNumbers[p], phone |-> p, app |-> number[incomingNumbers[p]].app]
    <3>1. n \in accountNumbers /\ n.sid = incomingNumbers[p] /\ incomingNumbers[p] \in Sids
      BY <1>1 DEF ProvisionedAreEntries, Entry
    <3>2. (IF n.sid = s THEN [sid |-> n.sid, phone |-> n.phone, app |-> a] ELSE n)
            = [sid |-> incomingNumbers[p], phone |-> p, app |-> number'[incomingNumbers[p]].app]
      BY <2>2, <3>1
    <3> QED BY <2>1, <3>1, <3>2
  <2> QED BY <2>4, <2>5, <2>6, <2>7, <2>8
<1> QED BY <1>2, <1>3

LEMMA DeleteNumberInv ==
  ASSUME NumberInv, NEW s \in Sids, DeleteIncomingPhoneNumber(s)
  PROVE  NumberInv'
<1> USE DEF NumberInv, numberVars, sipVars, callVars
<1>1. PICK p \in Phones :
        /\ incomingNumbers[p] = s
        /\ incomingNumbers' = [incomingNumbers EXCEPT ![p] = NoSid]
        /\ accountNumbers' = {n \in accountNumbers : n.phone # p}
        /\ UNCHANGED <<applications, signingKeys, number, found, sipVars, callVars>>
  BY DEF DeleteIncomingPhoneNumber
<1>2. incomingNumbers \in [Phones -> Sids \cup {NoSid}]
  BY DEF TypeOK
<1>3. TypeOK'
  BY <1>1 DEF TypeOK
<1>4. RecordsKnowTheirPhone' /\ ApplicationsExist'
  BY <1>1, <1>2 DEF RecordsKnowTheirPhone, ApplicationsExist
<1>5. EntriesAreProvisioned'
  BY <1>1, <1>2 DEF EntriesAreProvisioned, TypeOK
<1>6. ProvisionedAreEntries'
  BY <1>1, <1>2 DEF ProvisionedAreEntries, Entry
<1> QED BY <1>3, <1>4, <1>5, <1>6
-----------------------------------------------------------------------------
(* SIP callers, and panics *)

\* What a SIP caller was let in by stays true, because the two registers of the
\* mappings agree and nothing is deleted from them.
SipInv ==
  /\ \A d \in Domains : domainMappings[d] = {m \in sipMappings : m.domain = d}
  /\ \A m \in sipMappings : sipDomains[m.domain] # NoName
  /\ AdmittedByCredential

\* A step that only adds to the registers and creates no call from SIP.
LEMMA SipGrows ==
  ASSUME TypeOK, SipInv,
         sipMappings' = sipMappings, domainMappings' = domainMappings,
         sipCredentials \subseteq sipCredentials',
         \A d \in Domains : sipDomains[d] # NoName => sipDomains'[d] = sipDomains[d],
         \A c \in calls' : c \in calls \/ c.via # "sip"
  PROVE  SipInv'
  BY DEF TypeOK, Mapping, SipInv, AdmittedByCredential

LEMMA CreateMappingSip ==
  ASSUME TypeOK, SipInv, NEW m \in Mapping, CreateMapping(m)
  PROVE  SipInv'
<1> USE DEF CreateMapping, callVars
<1>1. \A d \in Domains : domainMappings'[d] = {n \in sipMappings' : n.domain = d}
  BY DEF TypeOK, Mapping, SipInv
<1>2. \A n \in sipMappings' : sipDomains'[n.domain] # NoName
  BY DEF SipInv, Existing
<1>3. AdmittedByCredential'
  BY DEF SipInv, AdmittedByCredential
<1> QED BY <1>1, <1>2, <1>3 DEF SipInv

LEMMA IncomingSip ==
  ASSUME TypeOK, SipInv, NEW u \in Users, NEW n \in Names, CreateIncomingCallFromSIP(u, n)
  PROVE  SipInv'
<1>1. PICK d \in Existing :
        /\ sipDomains[d] = n /\ Admits(d, u)
        /\ AddCall([via |-> "sip", from |-> u, sip |-> TRUE, at |-> n])
  BY DEF CreateIncomingCallFromSIP
<1>2. PICK m \in sipMappings :
        m.of = "calls" /\ m.domain = d /\ [list |-> m.list, user |-> u] \in sipCredentials
  BY <1>1 DEF Admits, SipInv, Existing
<1>3. AdmittedByCredential'
  BY <1>1, <1>2 DEF AddCall, sipVars, SipInv, AdmittedByCredential
<1> QED BY <1>1, <1>3 DEF SipInv, AddCall, sipVars

-----------------------------------------------------------------------------
(* The invariant *)

Inv == NumberInv /\ SipInv /\ OnlySoftphonesPanic

LEMMA InitInv == Init => Inv
<1> SUFFICES ASSUME Init PROVE Inv
  OBVIOUS
<1>1. SipInv
  BY DEF Init, SipInv, AdmittedByCredential
<1>2. OnlySoftphonesPanic
  BY DEF Init, OnlySoftphonesPanic
<1> QED BY <1>1, <1>2, InitNumberInv DEF Inv

LEMMA CallKeepsInv ==
  ASSUME Inv, NEW c, c.via # "sip", AddCall(c)
  PROVE  Inv'
<1> USE DEF AddCall, numberVars, sipVars
<1>1. TypeOK'
  BY DEF Inv, NumberInv, TypeOK
<1>2. NumberInv'
  BY <1>1, OthersKeepNumbers DEF Inv
<1>3. SipInv'
  BY SipGrows DEF Inv, NumberInv
<1> QED BY <1>2, <1>3 DEF Inv, OnlySoftphonesPanic

LEMMA PanicKeepsInv ==
  ASSUME Inv, Panic("softphone")
  PROVE  Inv'
<1> USE DEF Panic, numberVars, sipVars
<1>1. TypeOK'
  BY DEF Inv, NumberInv, TypeOK
<1>2. NumberInv'
  BY <1>1, OthersKeepNumbers DEF Inv
<1>3. SipInv'
  BY SipGrows DEF Inv, NumberInv
<1> QED BY <1>2, <1>3 DEF Inv, OnlySoftphonesPanic

LEMMA ResourcesKeepInv == Inv /\ Resources => Inv'
<1> SUFFICES ASSUME Inv, Resources PROVE Inv'
  OBVIOUS
<1> USE DEF numberVars, sipVars, callVars
<1>0. NumberInv /\ TypeOK /\ SipInv /\ OnlySoftphonesPanic
  BY DEF Inv, NumberInv
<1>1. ASSUME NEW a \in Apps, CreateApplication(a) PROVE Inv'
  <2> USE <1>1 DEF CreateApplication
  <2>1. TypeOK'
    BY <1>0 DEF TypeOK
  <2>2. NumberInv'
    BY <1>0, <2>1, OthersKeepNumbers
  <2>3. SipInv'
    BY <1>0, SipGrows
  <2> QED BY <1>0, <2>2, <2>3 DEF Inv, OnlySoftphonesPanic
<1>2. ASSUME NEW k \in Keys, CreateNewSigningKey(k) PROVE Inv'
  <2> USE <1>2 DEF CreateNewSigningKey
  <2>1. TypeOK'
    BY <1>0 DEF TypeOK
  <2>2. NumberInv'
    BY <1>0, <2>1, OthersKeepNumbers
  <2>3. SipInv'
    BY <1>0, SipGrows
  <2> QED BY <1>0, <2>2, <2>3 DEF Inv, OnlySoftphonesPanic
<1>3. ASSUME NEW p \in Phones, NEW a \in Apps \cup {NoApp}, CreateIncomingPhoneNumber(p, a) PROVE Inv'
  <2>1. NumberInv'
    BY <1>0, <1>3, CreateNumberInv
  <2>2. SipInv'
    BY <1>0, <1>3, SipGrows DEF CreateIncomingPhoneNumber
  <2> QED BY <1>0, <1>3, <2>1, <2>2 DEF Inv, OnlySoftphonesPanic, CreateIncomingPhoneNumber
<1>4. ASSUME NEW c \in Clients, NEW p \in Phones, FindNumber(c, p) PROVE Inv'
  <2>1. NumberInv'
    BY <1>0, <1>4, FindNumberInv
  <2>2. SipInv'
    BY <1>0, <1>4, SipGrows DEF FindNumber
  <2> QED BY <1>0, <1>4, <2>1, <2>2 DEF Inv, OnlySoftphonesPanic, FindNumber
<1>5. ASSUME NEW c \in Clients, NEW a \in Apps \cup {NoApp}, UpdateNumber(c, a) PROVE Inv'
  <2>1. NumberInv'
    BY <1>0, <1>5, UpdateNumberInv
  <2>2. SipInv'
    BY <1>0, <1>5, SipGrows DEF UpdateNumber
  <2> QED BY <1>0, <1>5, <2>1, <2>2 DEF Inv, OnlySoftphonesPanic, UpdateNumber
<1>6. ASSUME NEW s \in Sids, DeleteIncomingPhoneNumber(s) PROVE Inv'
  <2>1. NumberInv'
    BY <1>0, <1>6, DeleteNumberInv
  <2>2. SipInv'
    BY <1>0, <1>6, SipGrows DEF DeleteIncomingPhoneNumber
  <2> QED BY <1>0, <1>6, <2>1, <2>2 DEF Inv, OnlySoftphonesPanic, DeleteIncomingPhoneNumber
<1>7. ASSUME NEW d \in Domains, NEW n \in Names, CreateSipDomain(d, n) PROVE Inv'
  <2> USE <1>7 DEF CreateSipDomain, Existing
  <2>1. TypeOK'
    BY <1>0 DEF TypeOK
  <2>2. NumberInv'
    BY <1>0, <2>1, OthersKeepNumbers
  <2>3. \A e \in Domains : sipDomains[e] # NoName => sipDomains'[e] = sipDomains[e]
    BY <1>0 DEF TypeOK
  <2>4. SipInv'
    BY <1>0, <2>3, SipGrows
  <2> QED BY <1>0, <2>2, <2>4 DEF Inv, OnlySoftphonesPanic
<1>8. ASSUME NEW l \in Lists, CreateSipCredentialList(l) PROVE Inv'
  <2> USE <1>8 DEF CreateSipCredentialList
  <2>1. TypeOK'
    BY <1>0 DEF TypeOK
  <2>2. NumberInv'
    BY <1>0, <2>1, OthersKeepNumbers
  <2>3. SipInv'
    BY <1>0, SipGrows
  <2> QED BY <1>0, <2>2, <2>3 DEF Inv, OnlySoftphonesPanic
<1>9. ASSUME NEW l \in Lists, NEW u \in Users, CreateSipCredential(l, u) PROVE Inv'
  <2> USE <1>9 DEF CreateSipCredential
  <2>1. TypeOK'
    BY <1>0 DEF TypeOK
  <2>2. NumberInv'
    BY <1>0, <2>1, OthersKeepNumbers
  <2>3. SipInv'
    BY <1>0, SipGrows
  <2> QED BY <1>0, <2>2, <2>3 DEF Inv, OnlySoftphonesPanic
<1>10. ASSUME NEW m \in Mapping, CreateMapping(m) PROVE Inv'
  <2>1. TypeOK'
    BY <1>0, <1>10 DEF TypeOK, CreateMapping
  <2>2. NumberInv'
    BY <1>0, <1>10, <2>1, OthersKeepNumbers DEF CreateMapping
  <2>3. SipInv'
    BY <1>0, <1>10, CreateMappingSip
  <2> QED BY <1>0, <1>10, <2>2, <2>3 DEF Inv, OnlySoftphonesPanic, CreateMapping
<1> QED BY <1>1, <1>2, <1>3, <1>4, <1>5, <1>6, <1>7, <1>8, <1>9, <1>10 DEF Resources

\* The record of a provisioned number names an application that exists, if any.
LEMMA CallsKeepInv == Inv /\ CallsIn => Inv'
<1> SUFFICES ASSUME Inv, CallsIn PROVE Inv'
  OBVIOUS
<1>1. ASSUME NEW f \in Caller, NEW sip \in BOOLEAN, CreateCall(f, sip) PROVE Inv'
  BY <1>1, CallKeepsInv DEF CreateCall
<1>2. ASSUME NEW o \in calls, NEW f \in Caller, NEW sip \in BOOLEAN, CreateChildCall(o, f, sip) PROVE Inv'
  BY <1>2, CallKeepsInv DEF CreateChildCall
<1>3. ASSUME NEW f \in Strangers, NEW p \in Phones, CreateIncomingCall(f, p) PROVE Inv'
  <2> DEFINE a == number[incomingNumbers[p]].app
  <2>1. incomingNumbers[p] \in Sids /\ a # NoApp
    BY <1>3 DEF CreateIncomingCall, Provisioned, Inv, NumberInv, TypeOK
  <2>2. a \in applications
    BY <2>1 DEF Inv, NumberInv, ApplicationsExist
  <2>3. AddCall([via |-> "number", from |-> f, sip |-> FALSE, at |-> NoName])
    BY <1>3, <2>2 DEF CreateIncomingCall
  <2> QED BY <2>3, CallKeepsInv
<1>4. ASSUME NEW f \in Strangers, NEW k \in Keys, NEW genuine \in BOOLEAN, NEW a \in Apps,
             CreateIncomingCallFromSoftphone(f, k, genuine, a)
      PROVE  Inv'
  <2>1. CASE a \in applications
    BY <1>4, <2>1, CallKeepsInv DEF CreateIncomingCallFromSoftphone
  <2>2. CASE a \notin applications
    BY <1>4, <2>2, PanicKeepsInv DEF CreateIncomingCallFromSoftphone
  <2> QED BY <2>1, <2>2
<1>5. ASSUME NEW u \in Users, NEW n \in Names, CreateIncomingCallFromSIP(u, n) PROVE Inv'
  <2>0. NumberInv /\ TypeOK /\ SipInv
    BY DEF Inv, NumberInv
  <2>1. UNCHANGED <<applications, signingKeys, numberVars, sipVars, panicked>>
    BY <1>5 DEF CreateIncomingCallFromSIP, AddCall
  <2>2. TypeOK'
    BY <2>0, <2>1 DEF TypeOK, numberVars, sipVars
  <2>3. NumberInv'
    BY <2>0, <2>1, <2>2, OthersKeepNumbers DEF numberVars
  <2>4. SipInv'
    BY <1>5, <2>0, IncomingSip
  <2> QED BY <2>1, <2>3, <2>4 DEF Inv, OnlySoftphonesPanic
<1> QED BY <1>1, <1>2, <1>3, <1>4, <1>5 DEF CallsIn

LEMMA StutterKeepsInv == Inv /\ UNCHANGED vars => Inv'
<1> SUFFICES ASSUME Inv, UNCHANGED vars PROVE Inv'
  OBVIOUS
<1> USE DEF vars, numberVars, sipVars, callVars
<1>1. TypeOK'
  BY DEF Inv, NumberInv, TypeOK
<1>2. NumberInv'
  BY <1>1, OthersKeepNumbers DEF Inv
<1>3. SipInv'
  BY SipGrows DEF Inv, NumberInv
<1> QED BY <1>2, <1>3 DEF Inv, OnlySoftphonesPanic

LEMMA Invariance == Spec => []Inv
<1>1. Inv /\ [Next]_vars => Inv'
  BY ResourcesKeepInv, CallsKeepInv, StutterKeepsInv DEF Next
<1> QED BY InitInv, <1>1, PTL DEF Spec

-----------------------------------------------------------------------------
(* Theorems *)

\* The maps of a subaccount hold what their names say, whatever requests come
\* in which order.
THEOREM TypeCorrect == Spec => []TypeOK
BY Invariance, PTL DEF Inv, NumberInv

\* What a snapshot shows of the numbers is what calls are routed by.
THEOREM SnapshotsAreTrue == Spec => []SnapshotShowsNumbers
<1>1. Inv => SnapshotShowsNumbers
  BY NumberInvShows DEF Inv
<1> QED BY <1>1, Invariance, PTL

\* CreateIncomingCall never dereferences a nil application.
THEOREM NumbersNeverPanic == Spec => []OnlySoftphonesPanic
BY Invariance, PTL DEF Inv

\* Every caller from SIP has a credential mapped to a domain of that name.
THEOREM SipCallersAreKnown == Spec => []AdmittedByCredential
BY Invariance, PTL DEF Inv, SipInv
-----------------------------------------------------------------------------
(* The numbers implement NumberRegistry.                                   *)

AppOf == [p \in Phones |-> IF incomingNumbers[p] = NoSid THEN NoApp ELSE number[incomingNumbers[p]].app]

LEMMA CreateProvisions ==
  ASSUME Inv, NEW p \in Phones, NEW a \in Apps \cup {NoApp}, CreateIncomingPhoneNumber(p, a)
  PROVE  \E s \in Sids : Registry!Provision(p, s)
<1>1. PICK s \in Sids \ Issued :
        /\ number' = [number EXCEPT ![s] = [phone |-> p, app |-> a]]
        /\ incomingNumbers' = [incomingNumbers EXCEPT ![p] = s]
  BY DEF CreateIncomingPhoneNumber
<1>2. /\ number \in [Sids -> Record] /\ incomingNumbers \in [Phones -> Sids \cup {NoSid}]
      /\ number[s].phone = NoPhone /\ s # NoSid /\ incomingNumbers[p] = NoSid
      /\ p # NoPhone
  BY <1>1, NothingAssumption DEF Inv, NumberInv, TypeOK, Issued, CreateIncomingPhoneNumber
<1>3. \A q \in Phones : incomingNumbers[q] # s
  BY <1>2, NothingAssumption DEF Inv, NumberInv, RecordsKnowTheirPhone
<1>4. AppOf' = [AppOf EXCEPT ![p] = a]
  BY <1>1, <1>2, <1>3 DEF AppOf
<1>5. Issued' = Issued \cup {s}
  BY <1>1, <1>2 DEF Issued
<1> QED BY <1>1, <1>2, <1>4, <1>5 DEF Registry!Provision, AppOf

LEMMA UpdateAssigns ==
  ASSUME Inv, NEW c \in Clients, NEW a \in Apps \cup {NoApp}, UpdateNumber(c, a)
  PROVE  (\E p \in Phones : Registry!Assign(p)) \/ UNCHANGED Registry!vars
<1> DEFINE s == found[c]
<1>1. /\ s \in Sids /\ UNCHANGED incomingNumbers
      /\ number' = Reassigned(s, a) \/ UNCHANGED number
  BY DEF UpdateNumber, Inv, NumberInv, TypeOK
<1>2. number \in [Sids -> Record] /\ incomingNumbers \in [Phones -> Sids \cup {NoSid}]
  BY DEF Inv, NumberInv, TypeOK
<1>3. CASE UNCHANGED number
  BY <1>1, <1>3 DEF Registry!vars, Issued
<1>4. CASE number' = Reassigned(s, a)
  <2>1. /\ \A t \in Sids : number'[t].phone = number[t].phone
        /\ number'[s].app = a /\ \A t \in Sids : t # s => number'[t] = number[t]
    BY <1>1, <1>2, <1>4 DEF Reassigned, Record
  <2>2. Issued' = Issued
    BY <2>1 DEF Issued
  <2>3. CASE \E p \in Phones : incomingNumbers[p] = s
    <3>1. PICK p \in Phones : incomingNumbers[p] = s
      BY <2>3
    <3>2. \A q \in Phones : q # p => incomingNumbers[q] # s
      BY <1>1, <3>1, NothingAssumption DEF Inv, NumberInv, RecordsKnowTheirPhone
    <3>3. s # NoSid
      BY <1>1, NothingAssumption
    <3>4. AppOf' = [AppOf EXCEPT ![p] = a]
      BY <1>1, <1>2, <2>1, <3>1, <3>2, <3>3 DEF AppOf
    <3> QED BY <1>1, <2>2, <3>1, <3>3, <3>4 DEF Registry!Assign, AppOf
  <2>4. CASE \A p \in Phones : incomingNumbers[p] # s
    <3>1. AppOf' = AppOf
      BY <1>1, <1>2, <2>1, <2>4 DEF AppOf
    <3> QED BY <1>1, <2>2, <3>1 DEF Registry!vars, AppOf
  <2> QED BY <2>3, <2>4
<1> QED BY <1>1, <1>3, <1>4

LEMMA DeleteReleases ==
  ASSUME Inv, NEW s \in Sids, DeleteIncomingPhoneNumber(s)
  PROVE  \E p \in Phones : Registry!Release(p)
<1>1. PICK p \in Phones :
        /\ incomingNumbers[p] = s /\ s # NoSid
        /\ incomingNumbers' = [incomingNumbers EXCEPT ![p] = NoSid]
        /\ UNCHANGED number
  BY DEF DeleteIncomingPhoneNumber
<1>2. incomingNumbers \in [Phones -> Sids \cup {NoSid}]
  BY DEF Inv, NumberInv, TypeOK
<1>3. AppOf' = [AppOf EXCEPT ![p] = NoApp]
  BY <1>1, <1>2 DEF AppOf
<1> QED BY <1>1, <1>3 DEF Registry!Release, AppOf, Issued

LEMMA OthersStutter ==
  ASSUME UNCHANGED <<number, incomingNumbers>>
  PROVE  UNCHANGED Registry!vars
BY DEF Registry!vars, Issued

\* The numbers of an account, with their records that outlive them, updates in
\* two sections and a second list, behave as the registry promises.
THEOREM NumbersImplementRegistry == Spec => ImplementsRegistry
<1>1. Init => Registry!Init
  BY NothingAssumption DEF Init, Registry!Init, Issued
<1>2. ASSUME Inv, [Next]_vars PROVE [Registry!Next]_(Registry!vars)
  <2>1. ASSUME CallsIn PROVE UNCHANGED <<number, incomingNumbers>>
    BY <2>1 DEF CallsIn, CreateCall, CreateChildCall, CreateIncomingCall, CreateIncomingCallFromSoftphone,
                CreateIncomingCallFromSIP, AddCall, Panic, numberVars
  <2>2. ASSUME Resources PROVE [Registry!Next]_(Registry!vars)
    <3> USE DEF numberVars
    <3>1. ASSUME NEW a \in Apps, CreateApplication(a) PROVE UNCHANGED <<number, incomingNumbers>>
      BY <3>1 DEF CreateApplication
    <3>2. ASSUME NEW k \in Keys, CreateNewSigningKey(k) PROVE UNCHANGED <<number, incomingNumbers>>
      BY <3>2 DEF CreateNewSigningKey
    <3>3. ASSUME NEW p \in Phones, NEW a \in Apps \cup {NoApp}, CreateIncomingPhoneNumber(p, a)
          PROVE  Registry!Next
      BY <1>2, <3>3, CreateProvisions DEF Registry!Next
    <3>4. ASSUME NEW c \in Clients, NEW p \in Phones, FindNumber(c, p)
          PROVE  UNCHANGED <<number, incomingNumbers>>
      BY <3>4 DEF FindNumber
    <3>5. ASSUME NEW c \in Clients, NEW a \in Apps \cup {NoApp}, UpdateNumber(c, a)
          PROVE  [Registry!Next]_(Registry!vars)
      BY <1>2, <3>5, UpdateAssigns DEF Registry!Next
    <3>6. ASSUME NEW s \in Sids, DeleteIncomingPhoneNumber(s) PROVE Registry!Next
      BY <1>2, <3>6, DeleteReleases DEF Registry!Next
    <3>7. ASSUME NEW d \in Domains, NEW n \in Names, CreateSipDomain(d, n)
          PROVE  UNCHANGED <<number, incomingNumbers>>
      BY <3>7 DEF CreateSipDomain
    <3>8. ASSUME NEW l \in Lists, CreateSipCredentialList(l) PROVE UNCHANGED <<number, incomingNumbers>>
      BY <3>8 DEF CreateSipCredentialList
    <3>9. ASSUME NEW l \in Lists, NEW u \in Users, CreateSipCredential(l, u)
          PROVE  UNCHANGED <<number, incomingNumbers>>
      BY <3>9 DEF CreateSipCredential
    <3>10. ASSUME NEW m \in Mapping, CreateMapping(m) PROVE UNCHANGED <<number, incomingNumbers>>
      BY <3>10 DEF CreateMapping
    <3> QED BY <2>2, <3>1, <3>2, <3>3, <3>4, <3>5, <3>6, <3>7, <3>8, <3>9, <3>10, OthersStutter DEF Resources
  <2>3. ASSUME UNCHANGED vars PROVE UNCHANGED <<number, incomingNumbers>>
    BY <2>3 DEF vars, numberVars
  <2> QED BY <1>2, <2>1, <2>2, <2>3, OthersStutter DEF Next
<1> QED BY <1>1, <1>2, Invariance, PTL DEF Spec, ImplementsRegistry, Registry!Spec
-----------------------------------------------------------------------------
(* Caller ids *)

CallInv ==
  /\ CallerIdIsKnown
  /\ \A c \in calls : c.via \in {"api", "child"} \/ c.sip \/ c.via \in {"number", "softphone"}

\* Whether a caller id is known, of a set of phones that were provisioned.
Known(from, phones) ==
  from \in phones \/ \E o \in calls : o.from = from /\ (o.sip \/ o.via \in {"number", "softphone"})

PhonesEver == {number[s].phone : s \in Issued}

LEMMA PhonesStayKnown ==
  ASSUME Inv, [Next]_vars
  PROVE  PhonesEver \subseteq PhonesEver'
<1>1. /\ number \in [Sids -> Record]
      /\ \A c \in Clients : found[c] \in Sids \cup {NoSid}
  BY DEF Inv, NumberInv, TypeOK
<1>2. \A s \in Issued : number'[s].phone = number[s].phone
  <2> USE DEF numberVars
  <2>1. CASE CallsIn
    BY <2>1 DEF CallsIn, CreateCall, CreateChildCall, CreateIncomingCall, CreateIncomingCallFromSoftphone,
                CreateIncomingCallFromSIP, AddCall, Panic
  <2>2. ASSUME NEW p \in Phones, NEW a \in Apps \cup {NoApp}, CreateIncomingPhoneNumber(p, a)
        PROVE  \A s \in Issued : number'[s].phone = number[s].phone
    BY <1>1, <2>2 DEF CreateIncomingPhoneNumber, Issued
  <2>3. ASSUME NEW c \in Clients, NEW a \in Apps \cup {NoApp}, UpdateNumber(c, a)
        PROVE  \A s \in Issued : number'[s].phone = number[s].phone
    BY <1>1, <2>3, NothingAssumption DEF UpdateNumber, Reassigned, Issued
  <2>4. CASE UNCHANGED number
    BY <2>4
  <2>5. CASE Resources
    BY <2>2, <2>3, <2>4, <2>5
       DEF Resources, CreateApplication, CreateNewSigningKey, FindNumber, DeleteIncomingPhoneNumber,
           CreateSipDomain, CreateSipCredentialList, CreateSipCredential, CreateMapping
  <2> QED BY <2>1, <2>4, <2>5 DEF Next, vars
<1>3. Issued \subseteq Issued'
  BY <1>2 DEF Issued
<1> QED BY <1>2, <1>3 DEF PhonesEver

\* A new call is known by its caller id, or brings its own.
LEMMA NewCallKnown ==
  ASSUME CallInv, Inv, [Next]_vars, NEW c, AddCall(c),
         c.via \in {"api", "child"} \/ c.sip \/ c.via \in {"number", "softphone"},
         c.via \in {"api", "child"} /\ ~c.sip => Known(c.from, PhonesEver)
  PROVE  CallInv'
<1>1. PhonesEver \subseteq PhonesEver'
  BY PhonesStayKnown
<1>2. calls' = calls \cup {c}
  BY DEF AddCall
<1>3. \A f : Known(f, PhonesEver) => Known(f, PhonesEver)'
  BY <1>1, <1>2 DEF Known
<1>4. \A o \in calls : o.via \in {"api", "child"} /\ ~o.sip => Known(o.from, PhonesEver)
  BY DEF CallInv, CallerIdIsKnown, Known, PhonesEver
<1>5. \A o \in calls' : o.via \in {"api", "child"} /\ ~o.sip => Known(o.from, PhonesEver)'
  BY <1>2, <1>3, <1>4
<1>6. CallerIdIsKnown'
  BY <1>5 DEF CallerIdIsKnown, Known, PhonesEver
<1> QED BY <1>2, <1>6 DEF CallInv

LEMMA ProvisionedIsKnown ==
  ASSUME Inv, NEW f, Provisioned(f)
  PROVE  f \in PhonesEver
<1>1. incomingNumbers[f] \in Sids /\ f \in Phones /\ f # NoPhone
  BY NothingAssumption DEF Provisioned, Inv, NumberInv, TypeOK
<1>2. number[incomingNumbers[f]].phone = f
  BY <1>1 DEF Provisioned, Inv, NumberInv, RecordsKnowTheirPhone
<1> QED BY <1>1, <1>2 DEF PhonesEver, Issued

LEMMA CallInvStep == Inv /\ CallInv /\ [Next]_vars => CallInv'
<1> SUFFICES ASSUME Inv, CallInv, [Next]_vars PROVE CallInv'
  OBVIOUS
<1>1. CASE UNCHANGED calls
  <2>1. PhonesEver \subseteq PhonesEver'
    BY PhonesStayKnown
  <2>2. CallerIdIsKnown'
    BY <1>1, <2>1 DEF CallInv, CallerIdIsKnown, PhonesEver
  <2> QED BY <1>1, <2>2 DEF CallInv
<1>2. ASSUME NEW f \in Caller, NEW sip \in BOOLEAN, CreateCall(f, sip) PROVE CallInv'
  <2>1. ~sip => Known(f, PhonesEver)
    BY <1>2, ProvisionedIsKnown DEF CreateCall, Known
  <2> QED BY <1>2, <2>1, NewCallKnown DEF CreateCall
<1>3. ASSUME NEW o \in calls, NEW f \in Caller, NEW sip \in BOOLEAN, CreateChildCall(o, f, sip)
      PROVE  CallInv'
  <2>1. o.from = f => Known(f, PhonesEver)
    BY DEF CallInv, CallerIdIsKnown, Known, PhonesEver
  <2>2. ~sip => Known(f, PhonesEver)
    BY <1>3, <2>1, ProvisionedIsKnown DEF CreateChildCall, Known
  <2> QED BY <1>3, <2>2, NewCallKnown DEF CreateChildCall
<1>4. ASSUME NEW f \in Strangers, NEW p \in Phones, CreateIncomingCall(f, p) PROVE CallInv'
  BY <1>1, <1>4, NewCallKnown DEF CreateIncomingCall, Panic
<1>5. ASSUME NEW f \in Strangers, NEW k \in Keys, NEW genuine \in BOOLEAN, NEW a \in Apps,
             CreateIncomingCallFromSoftphone(f, k, genuine, a)
      PROVE  CallInv'
  BY <1>1, <1>5, NewCallKnown DEF CreateIncomingCallFromSoftphone, Panic
<1>6. ASSUME NEW u \in Users, NEW n \in Names, CreateIncomingCallFromSIP(u, n) PROVE CallInv'
  <2>1. AddCall([via |-> "sip", from |-> u, sip |-> TRUE, at |-> n])
    BY <1>6 DEF CreateIncomingCallFromSIP
  <2> QED BY <2>1, NewCallKnown
<1>7. CASE Resources
  <2>1. UNCHANGED calls
    BY <1>7 DEF Resources, CreateApplication, CreateNewSigningKey, CreateIncomingPhoneNumber, FindNumber,
                UpdateNumber, DeleteIncomingPhoneNumber, CreateSipDomain, CreateSipCredentialList,
                CreateSipCredential, CreateMapping, callVars
  <2> QED BY <1>1, <2>1
<1>8. CASE UNCHANGED vars
  BY <1>1, <1>8 DEF vars, callVars
<1> QED BY <1>2, <1>3, <1>4, <1>5, <1>6, <1>7, <1>8 DEF Next, CallsIn

\* Down every chain of child calls, a caller id was the account's or came in.
THEOREM CallerIdsAreKnown == Spec => []CallerIdIsKnown
<1>1. Init => CallInv
  BY DEF Init, CallInv, CallerIdIsKnown
<1> QED BY <1>1, CallInvStep, Invariance, PTL DEF Spec, CallInv
=============================================================================
