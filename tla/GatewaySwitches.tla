--------------------------- MODULE GatewaySwitches ---------------------------
(***************************************************************************)
(* The switches of the OpenList gateways (core/cloudsource/                *)
(* gateway_admin.go): one property of the database holds them all, and     *)
(* each request of an administrator reads it and writes it whole.          *)
(***************************************************************************)
EXTENDS Naturals

CONSTANTS
    Gateways,      \* the gateways of the configuration
    Admins,        \* administrators, each with one request at a time
    MaxRequests    \* bound: requests

\* what the constants satisfy
SwitchesAssumption == MaxRequests \in Nat

VARIABLES
    states,      \* the stored flags: those that have been set
    request,     \* what an administrator's request does
    asked,       \* how many requests have come
    wanted,      \* what was put last, by gateway
    met,         \* has a request begun while another was under way?
    failed       \* has a request read nothing, because its read failed?

vars == <<states, request, asked, wanted, met, failed>>

Flags    == UNION {[g -> BOOLEAN] : g \in SUBSET Gateways}
NoFlags  == [g \in {} |-> TRUE]
Idle     == [at |-> "idle"]
Requests == [at : {"put"}, gateway : Gateways, on : BOOLEAN, read : Flags]

\* a gateway is enabled unless it was set not to be
Disabled(flags) == {g \in DOMAIN flags : ~flags[g]}

Init ==
    /\ states = NoFlags
    /\ request = [a \in Admins |-> Idle]
    /\ asked = 0 /\ wanted = [g \in Gateways |-> TRUE]
    /\ met = FALSE /\ failed = FALSE

\* loadGatewayStates: a failed read is as good as no flags
Loads(a, g, on) ==
    /\ request[a].at = "idle" /\ asked < MaxRequests
    /\ asked' = asked + 1
    /\ \E read \in {states, NoFlags} :
          /\ request' = [request EXCEPT ![a] =
                           [at |-> "put", gateway |-> g, on |-> on, read |-> read]]
          /\ failed' = (failed \/ read # states)
    /\ met' = (met \/ \E b \in Admins : request[b].at # "idle")
    /\ UNCHANGED <<states, wanted>>

\* MUTANT of Set: only the flag that is set is written
MutSet(r) == [g \in {r.gateway} |-> r.on]

Set(r) == [g \in DOMAIN r.read \cup {r.gateway} |-> IF g = r.gateway THEN r.on ELSE r.read[g]]

\* the property is written whole, or the request fails
Puts(a) ==
    LET r == request[a]
    IN  /\ r.at = "put"
        /\ \/ states' = Set(r) /\ wanted' = [wanted EXCEPT ![r.gateway] = r.on]
           \/ UNCHANGED <<states, wanted>>
        /\ request' = [request EXCEPT ![a] = Idle]
        /\ UNCHANGED <<asked, met, failed>>

Next ==
    \E a \in Admins : Puts(a) \/ \E g \in Gateways, on \in BOOLEAN : Loads(a, g, on)

Spec == Init /\ [][Next]_vars

-----------------------------------------------------------------------------
\* The variables have their types.
TypeOK ==
    /\ states \in Flags /\ wanted \in [Gateways -> BOOLEAN]
    /\ request \in [Admins -> {Idle} \cup Requests]
    /\ asked \in 0..MaxRequests
    /\ {met, failed} \subseteq BOOLEAN

\* Every switch is as it was last put, unless two requests met, or one could not read
\* the others and wrote them away.
SwitchesAreKept ==
    ~met /\ ~failed => Disabled(states) = {g \in Gateways : ~wanted[g]}
=============================================================================
