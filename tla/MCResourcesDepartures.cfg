SPECIFICATION Spec
CONSTANTS
  Phones = {p, q}
  Sids = {s1, s2}
  Apps = {a}
  Keys = {k}
  Domains = {d, e}
  Names = {n}
  Lists = {l}
  Users = {u}
  Strangers = {x}
  Clients = {c}
  NoPhone = NoPhone
  NoSid = NoSid
  NoApp = NoApp
  NoName = NoName
  MaxCalls = 2
CHECK_DEADLOCK FALSE

\* Each of these is violated; TLC reports one at a time.
INVARIANT AdmissionIsDetermined
\* INVARIANT NoPanic
\* PROPERTY UpdatesAreOfNumbers
