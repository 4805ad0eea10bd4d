---------------------------- MODULE Configuration ----------------------------
(***************************************************************************)
(* Load of config/config.go: what the environment may hold, what becomes   *)
(* of it, and whether the server starts with it.  A setting is absent or   *)
(* blank, no number, or a number.  A secret is known by its length.        *)
(* Durations are counted in ticks, so that fractions of a second exist.    *)
(***************************************************************************)
EXTENDS Integers

CONSTANT PerSecond  \* ticks in a second

ASSUME TicksAreParts == PerSecond \in Nat \ {0}

Absent == [set |-> FALSE, number |-> 0]
NoNumber == [set |-> TRUE, number |-> 0]   \* refused like zero by every reader
Number(n) == [set |-> TRUE, number |-> n]

Settings == [set : BOOLEAN, number : Int]

Drivers == {"postgres", "mysql", "sqlite"}

\* The six time limits that Validate looks at; TOKEN_TTL is not one of them.
Limits == {"STARTUP_TIMEOUT", "SHUTDOWN_TIMEOUT", "READ_HEADER_TIMEOUT", "READ_TIMEOUT",
           "WRITE_TIMEOUT", "IDLE_TIMEOUT"}

\* "" stands for a driver that was not set; one of the limits may be set.
Environment ==
  [driver : STRING, secret : Settings, ttl : Settings, request : Settings,
   named : Limits, limit : Settings]

\* In seconds.
DefaultLimit ==
  [STARTUP_TIMEOUT |-> 35, SHUTDOWN_TIMEOUT |-> 10, READ_HEADER_TIMEOUT |-> 5,
   READ_TIMEOUT |-> 15, WRITE_TIMEOUT |-> 20, IDLE_TIMEOUT |-> 60]

IntEnv(setting, fallback) ==
  IF setting.set /\ setting.number > 0 THEN setting.number ELSE fallback

\* ParseDuration also reads fractions of a second.
DurationEnv(setting, fallback) ==
  IF setting.set /\ setting.number > 0 THEN setting.number ELSE fallback

Load(environment) ==
  [driver  |-> IF environment.driver = "" THEN "postgres" ELSE environment.driver,
   secret  |-> IF environment.secret.set THEN environment.secret.number ELSE 26,
   ttl     |-> DurationEnv(environment.ttl, 8 * 3600 * PerSecond),
   request |-> IntEnv(environment.request, 180),
   limit   |-> [l \in Limits |->
                  DurationEnv(IF l = environment.named THEN environment.limit ELSE Absent,
                              DefaultLimit[l] * PerSecond)]]

\* Validate; the server exits when it fails.
Starts(config) ==
  /\ config.driver \in Drivers
  /\ config.secret >= 16
  /\ config.request \in 10 .. 100000
  /\ \A l \in Limits : config.limit[l] > 0
=============================================================================
