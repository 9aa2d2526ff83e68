------------------------------- MODULE Startup ------------------------------
(***************************************************************************)
(* The start of the program up to manager_loop's loop (main.rs, cfg.rs,    *)
(* gui/chat.rs): the signing key is read or made, the listeners are bound, *)
(* and whoever waits for their addresses is told. The process may die and  *)
(* be launched again at any time; the key file is what it finds then.      *)
(***************************************************************************)
EXTENDS Naturals

CONSTANTS
  Listen,       \* the configured listen addresses
  MaxLaunches,  \* how often the program is launched
  Absent,       \* there is no key file
  Partial       \* there is one, begun and not finished

ASSUME LaunchAssumption ==
  MaxLaunches \in Nat /\ Absent \notin Nat /\ Partial \notin Nat

VARIABLES
  launches,         \* how often the program has been launched
  stage,            \* where main and manager_loop stand
  key_file,         \* the key in desktop.key_file
  self_key,         \* ChatState.self_key
  tried,            \* the listen addresses bind has been called for
  listeners,        \* those it succeeded for
  bound_addresses,  \* ChatState.bound_addresses
  done_binding      \* ChatState.done_binding

startVars == <<launches, stage, key_file, self_key, tried, listeners,
               bound_addresses, done_binding>>

(* Each key generated is new: it is named by the launch that generated it. *)
NoKey == 0
Keys == 1 .. MaxLaunches

Stages == {"off", "reading", "keying", "writing", "binding", "bound", "running", "failed"}

StartTypeOK ==
  /\ launches \in 0 .. MaxLaunches
  /\ stage \in Stages
  /\ key_file \in Keys \cup {Absent, Partial}
  /\ self_key \in Keys \cup {NoKey}
  /\ tried \subseteq Listen
  /\ listeners \subseteq tried
  /\ bound_addresses \subseteq Listen
  /\ done_binding \in BOOLEAN

StartInit ==
  /\ launches = 0
  /\ stage = "off"
  /\ key_file = Absent
  /\ self_key = NoKey
  /\ tried = {} /\ listeners = {} /\ bound_addresses = {}
  /\ done_binding = FALSE

-----------------------------------------------------------------------------
(* main: the configuration directory is there, or made, or the process     *)
(* ends.                                                                   *)
Launch ==
  /\ stage = "off"
  /\ launches < MaxLaunches
  /\ launches' = launches + 1
  /\ stage' \in {"reading", "off"}
  /\ UNCHANGED <<key_file, self_key, tried, listeners, bound_addresses, done_binding>>

(* Config::read, and the start of the GUI and of manager_loop; `expect`    *)
(* ends the process if the configuration cannot be read.                   *)
ReadConfig ==
  /\ stage = "reading"
  /\ stage' \in {"keying", "off"}
  /\ UNCHANGED <<launches, key_file, self_key, tried, listeners, bound_addresses, done_binding>>

(* Config::get_key_or_init, when there is a file: what was begun and not   *)
(* finished does not parse, and reading may fail.                          *)
ReadKey ==
  /\ stage = "keying"
  /\ key_file # Absent
  /\ \/ /\ key_file # Partial
        /\ self_key' = key_file
        /\ stage' = "binding"
     \/ stage' = "failed" /\ UNCHANGED self_key
  /\ UNCHANGED <<launches, key_file, tried, listeners, bound_addresses, done_binding>>

(* Mutant of CreateKeyFile: the key is used before it is safe on disk.     *)
CreateKeyFileLate ==
  /\ stage = "keying"
  /\ key_file = Absent
  /\ self_key' = launches
  /\ stage' = "writing"
  /\ UNCHANGED <<launches, key_file, tried, listeners, bound_addresses, done_binding>>

(* Mutant of CreateKeyFile: a file that does not parse is begun anew, and   *)
(* one that cannot be read is taken for one that is not there.             *)
CreateKeyFileAnew ==
  /\ stage = "keying"
  /\ \/ key_file' = Partial /\ stage' = "writing"
     \/ stage' = "failed" /\ UNCHANGED key_file
  /\ UNCHANGED <<launches, self_key, tried, listeners, bound_addresses, done_binding>>

(* When there is none: the directory and the file are created ...          *)
CreateKeyFile ==
  /\ stage = "keying"
  /\ key_file = Absent
  /\ \/ key_file' = Partial /\ stage' = "writing"
     \/ stage' = "failed" /\ UNCHANGED key_file
  /\ UNCHANGED <<launches, self_key, tried, listeners, bound_addresses, done_binding>>

(* ... and the new key is written to the file.                             *)
WriteKey ==
  /\ stage = "writing"
  /\ \/ /\ key_file' = launches
        /\ self_key' = launches
        /\ stage' = "binding"
     \/ stage' = "failed" /\ UNCHANGED <<key_file, self_key>>
  /\ UNCHANGED <<launches, tried, listeners, bound_addresses, done_binding>>

(* TcpListener::bind: an address that cannot be bound is passed over.      *)
Bind(a) ==
  /\ stage = "binding"
  /\ a \notin tried
  /\ tried' = tried \cup {a}
  /\ listeners' \in {listeners, listeners \cup {a}}
  /\ UNCHANGED <<launches, stage, key_file, self_key, bound_addresses, done_binding>>

(* Mutant of ShareAddresses: the waiting thread may go on before.          *)
ShareLate ==
  /\ stage = "binding"
  /\ tried = Listen
  /\ done_binding' = TRUE
  /\ stage' = "bound"
  /\ UNCHANGED <<launches, key_file, self_key, tried, listeners, bound_addresses>>

ShareAddresses ==
  /\ stage = "binding"
  /\ tried = Listen
  /\ bound_addresses' = listeners
  /\ stage' = "bound"
  /\ UNCHANGED <<launches, key_file, self_key, tried, listeners, done_binding>>

(* The flag is set under its lock, and the condition variable notified.    *)
SignalDone ==
  /\ stage = "bound"
  /\ done_binding' = TRUE
  /\ stage' = "running"
  /\ UNCHANGED <<launches, key_file, self_key, tried, listeners, bound_addresses>>

(* The process ends, or dies.                                              *)
Die ==
  /\ stage # "off"
  /\ stage' = "off"
  /\ self_key' = NoKey
  /\ tried' = {} /\ listeners' = {} /\ bound_addresses' = {}
  /\ done_binding' = FALSE
  /\ UNCHANGED <<launches, key_file>>

(* What manager_loop does of itself, short of SignalDone.                  *)
Begin ==
  \/ ReadConfig \/ ReadKey \/ CreateKeyFile \/ WriteKey \/ ShareAddresses
  \/ \E a \in Listen : Bind(a)
=============================================================================
