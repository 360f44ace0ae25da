\* Two providers, an account Stripe may make and a Standard one; a provider may onboard,
\* adopt, relink and rotate.  Answers come through the browser or through the bridge loop;
\* one append fails and the process dies once.
SPECIFICATION FairSpec
CONSTANTS
    Providers = {p, q}
    Accounts = {x, s}  Makeable = {x}  Standard = {s}
    Nonces = {n1}  RotationNonces = {n1, n2}
    Codes = {c}
    Requests = {web}  Bridge = bridge
    None = none
    MaxConsents = 2
    MaxDeauthorizations = 1
    MaxFaults = 1
    MaxCrashes = 1
INVARIANTS
    LogReloads
    ExchangedOnce
    BindingJustified
PROPERTY ConsentEnds
CHECK_DEADLOCK FALSE
