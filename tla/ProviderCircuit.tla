--------------------------- MODULE ProviderCircuit ---------------------------
(***************************************************************************)
(* The persisted health of the MCP services: TelemetryRepository in        *)
(* backend/observability.py, as the clients of backend/mcp_servers.py use  *)
(* it. A row of service_health is shared by all processes. A success is    *)
(* one transaction; a failure reads the count in one transaction and       *)
(* writes it, with the circuit, in another. The clients of other processes *)
(* are the outsiders; the client of one trader is in TraderCycles.         *)
(***************************************************************************)
EXTENDS Naturals

CONSTANTS
  Service,
  Outsider,     (* clients of the same services in other processes         *)
  Threshold,    (* MCP_CIRCUIT_FAILURE_THRESHOLD                           *)
  MaxFailures,  (* bound: the count of failures stays there                *)
  NoRead

ASSUME CircuitAssumption ==
  /\ Threshold \in Nat \ {0} /\ MaxFailures \in Nat /\ Threshold <= MaxFailures
  /\ NoRead \notin [step : {"marking", "raised", "blaming"}, on : Service, read : Nat]

VARIABLES
  health,   (* the rows of service_health                                  *)
  reading,  (* per outsider: its failure on the way into the table         *)
  up        (* the providers behind the services answer                    *)

circuitVars == <<health, reading, up>>

Row == [state    : {"starting", "healthy", "degraded", "unavailable"},
        failures : 0..MaxFailures,                    (* consecutive_failures *)
        circuit  : {"closed", "open", "expired"}]     (* circuit_open_until: NULL, ahead, past *)

(* A failed call or an attributed exception (blaming) with the count that  *)
(* mark_failure has read; an exception that is not attributed yet.         *)
Reading == [step : {"marking", "raised", "blaming"}, on : Service, read : 0..MaxFailures]

Registered == [state |-> "unavailable", failures |-> 0, circuit |-> "closed"]

CircuitInit ==
  /\ health = [s \in Service |-> Registered]
  /\ reading = [o \in Outsider |-> NoRead]
  /\ up \in BOOLEAN

-----------------------------------------------------------------------------
(* The row after each call of the repository                               *)

(* Defect: the reset time is not looked at.                                *)
IsOpenForEver(s) == health[s].circuit # "closed"

IsOpen(s) == health[s].circuit = "open"

Started(row) == [row EXCEPT !.state = "starting"]

Succeeded == [state |-> "healthy", failures |-> 0, circuit |-> "closed"]

(* Defect: the circuit is set by one count only.                           *)
OpensAt(failures) == failures = Threshold

(* failures is what mark_failure computed from the count it had read.      *)
Opens(failures) == failures >= Threshold

Failed(failures) ==
  [state    |-> IF Opens(failures) THEN "unavailable" ELSE "degraded",
   failures |-> IF failures > MaxFailures THEN MaxFailures ELSE failures,
   circuit  |-> IF Opens(failures) THEN "open" ELSE "closed"]

MarkStarting(s)      == health' = [health EXCEPT ![s] = Started(@)]
MarkSuccess(s)       == health' = [health EXCEPT ![s] = Succeeded]
MarkFailed(s, count) == health' = [health EXCEPT ![s] = Failed(count + 1)]

-----------------------------------------------------------------------------
(* Other processes and the world                                           *)

(* A call that was let through, a probe or a listing is answered. Listings *)
(* come from the client's cache, so they succeed while the provider is     *)
(* down.                                                                   *)
OutsiderSucceeds(o, s) == reading[o] = NoRead /\ MarkSuccess(s) /\ UNCHANGED <<reading, up>>

Raised(s)   == [step |-> "raised", on |-> s, read |-> 0]
Marks(what, s) == [step |-> what, on |-> s, read |-> health[s].failures]

(* One fails: mark_failure reads the count.                                *)
OutsiderFails(o, s) ==
  /\ ~up /\ reading[o] = NoRead
  /\ reading' = [reading EXCEPT ![o] = Marks("marking", s)]
  /\ UNCHANGED <<health, up>>

(* One is refused, whether or not the provider is up again.                *)
OutsiderRefused(o, s) ==
  /\ IsOpen(s) /\ reading[o] = NoRead
  /\ reading' = [reading EXCEPT ![o] = Raised(s)]
  /\ UNCHANGED <<health, up>>

(* The exception of the outsider's cycle is attributed to the service that *)
(* it names: mark_failure reads the count,                                 *)
OutsiderBlames(o) ==
  /\ reading[o] # NoRead /\ reading[o].step = "raised"
  /\ reading' = [reading EXCEPT ![o] = Marks("blaming", reading[o].on)]
  /\ UNCHANGED <<health, up>>

(* and writes what it made of it. The exception of a failed call is        *)
(* attributed once more when it ends the outsider's cycle.                 *)
OutsiderWrites(o) ==
  /\ reading[o] # NoRead /\ reading[o].step # "raised"
  /\ MarkFailed(reading[o].on, reading[o].read)
  /\ \/ reading' = [reading EXCEPT ![o] = NoRead]
     \/ reading[o].step = "marking" /\ reading' = [reading EXCEPT ![o] = Raised(reading[o].on)]
  /\ UNCHANGED up

(* The reset time of an open circuit passes.                               *)
Expire(s) ==
  /\ IsOpen(s)
  /\ health' = [health EXCEPT ![s].circuit = "expired"]
  /\ UNCHANGED <<reading, up>>

Outage == up' = ~up /\ UNCHANGED <<health, reading>>

-----------------------------------------------------------------------------
CircuitTypeOK ==
  /\ health \in [Service -> Row]
  /\ reading \in [Outsider -> Reading \cup {NoRead}]
  /\ up \in BOOLEAN
=============================================================================
