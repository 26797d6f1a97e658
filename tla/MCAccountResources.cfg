SPECIFICATION Spec
CONSTANTS
  Phones = {p, q}
  Sids = {s1, s2}
  Apps = {a}
  Keys = {k}
  Domains = {d, e}
  Names = {n}
  Lists = {l}
  Users = {u}
  Strangers = {x}
  Clients = {c}
  NoPhone = NoPhone
  NoSid = NoSid
  NoApp = NoApp
  NoName = NoName
  MaxCalls = 2
SYMMETRY Alike
INVARIANTS
  SnapshotShowsNumbers
  OnlySoftphonesPanic
  CallerIdIsKnown
  AdmittedByCredential
PROPERTY
  ImplementsRegistry
