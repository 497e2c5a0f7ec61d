---------------------------- MODULE VcosCommands ----------------------------
(***************************************************************************)
(* The command table of vcos_cmd.c: commands are registered in             *)
(* alphabetical order, found by name at each level of a command line, and  *)
(* run with the lock held; their output goes to the caller's buffer, or to *)
(* the log once it does not fit.                                           *)
(***************************************************************************)
EXTENDS Integers, Sequences, SequencesExt, FiniteSets

CONSTANTS
  Threads,
  Commands,     \* names of the commands to register; numbers in alphabetical order
  Help,         \* the name of the help command
  Subs,         \* Subs[c]: names of c's sub-commands; empty: c is a function
  Prints,       \* what a function prints: [len, line], line: it ends in a newline
  Size,         \* bytes of the result buffer
  Grow,         \* entries by which the table grows: 8
  FirstAlone,   \* the first registration is over before another begins
  MaxRuns, MaxFails \* bounds: executions, failed allocations

VARIABLES
  table,        \* cmd_globals.cmd_entry
  alloc,        \* num_cmd_alloc
  lock,         \* cmd_globals.lock: a thread or None
  named,        \* vcos_cmd_log_category has its name
  category,     \* cmd_globals.log_category is set (vcos_cmd_always_log_output)
  at,           \* what each thread does
  todo,         \* commands the registering thread still has to insert, last first
  asked,        \* commands whose registration has been asked for
  refused,      \* and those that had no memory
  line,         \* the command line being executed
  ptr, zero,    \* result_ptr, and the first '\0' of the buffer
  useLog,       \* param.use_log
  shown,        \* numbers of the prints in the buffer, with what was cut of each
  logged, out,  \* what was logged; prints made
  result,       \* of the last execution: what ran, or "einval", "enoent"
  runs, fails

outVars == <<line, ptr, zero, useLog, shown, logged, out, result>>
tableVars == <<table, alloc, named, todo, asked, refused, fails>>
cmdvars == <<tableVars, outVars, lock, category, at, runs>>

None == 0

CmdInit ==
  /\ table = <<>> /\ alloc = 0 /\ lock = None /\ named = FALSE /\ category \in BOOLEAN
  /\ at = [t \in Threads |-> "idle"] /\ todo = [t \in Threads |-> <<>>]
  /\ asked = {} /\ refused = {} /\ line = <<>> /\ ptr = 0 /\ zero = 0 /\ useLog = FALSE
  /\ shown = <<>> /\ logged = <<>> /\ out = 0 /\ result = <<"none">>
  /\ runs = 0 /\ fails = 0

Goto(t, place) == at' = [at EXCEPT ![t] = place]

-----------------------------------------------------------------------------
(* vcos_cmd_register                                                       *)

\* The category's name tells whether help is there; it is looked at without
\* the lock.
Register(t, c) ==
  /\ at[t] = "idle" /\ c \notin asked
  /\ FirstAlone => asked = {} \/ Help \in Range(table) \cup refused
  /\ asked' = asked \cup {c}
  /\ todo' = [todo EXCEPT ![t] = <<c>>]
  /\ Goto(t, IF named THEN "insert" ELSE "name")
  /\ UNCHANGED <<table, alloc, named, refused, fails, outVars, lock, category, runs>>

\* vcos_log_register, and the call of itself for help.
Name(t) ==
  /\ at[t] = "name" /\ named' = TRUE
  /\ todo' = [todo EXCEPT ![t] = Append(@, Help)]
  /\ Goto(t, "insert")
  /\ UNCHANGED <<table, alloc, asked, refused, fails, outVars, lock, category, runs>>

\* Mutant: an entry goes before the ones that come before it.
PlaceFirst(c) == Len(SelectSeq(table, LAMBDA d : d > c))

\* Entries move up from the end until one comes before the new one.
Place(c) == Len(SelectSeq(table, LAMBDA d : d < c))

\* With the lock, which is taken and left: a full table grows.
Insert(t) ==
  /\ at[t] = "insert" /\ lock = None
  /\ LET c == Last(todo[t]) IN
     /\ table' = InsertAt(table, Place(c) + 1, c)
     /\ alloc' = IF Len(table) >= alloc THEN alloc + Grow ELSE alloc
  /\ todo' = [todo EXCEPT ![t] = Front(@)]
  /\ Goto(t, IF Len(todo[t]) = 1 THEN "idle" ELSE "insert")
  /\ UNCHANGED <<named, asked, refused, fails, outVars, lock, category, runs>>

InsertFails(t) ==
  /\ at[t] = "insert" /\ lock = None /\ Len(table) >= alloc /\ fails < MaxFails
  /\ fails' = fails + 1
  /\ refused' = refused \cup {Last(todo[t])}
  /\ todo' = [todo EXCEPT ![t] = Front(@)]
  /\ Goto(t, IF Len(todo[t]) = 1 THEN "idle" ELSE "insert")
  /\ UNCHANGED <<table, alloc, named, asked, outVars, lock, category, runs>>

-----------------------------------------------------------------------------
(* vcos_cmd_execute                                                        *)

Lines == UNION {[1..n -> Commands \cup {Help} \cup UNION {Subs[c] : c \in Commands}] : n \in 0..2}

\* execute_cmd over the table and, for a command that has them, over its
\* sub-commands; a name that is not found may still be help.
Outcome(l) ==
  IF l = <<>> THEN <<"einval">>
  ELSE IF l[1] \in Range(table) \ {Help}
       THEN IF Subs[l[1]] = {} THEN <<"ran", l[1]>>
            ELSE IF Len(l) = 1 THEN <<"einval">>
            ELSE IF l[2] \in Subs[l[1]] THEN <<"ran", l[2]>>
            ELSE IF l[2] = Help THEN <<"einval">> ELSE <<"enoent">>
  ELSE IF l[1] # Help THEN <<"enoent">>
  ELSE IF Len(l) = 1 \/ l[2] \in Range(table) THEN <<"ran", Help>> ELSE <<"enoent">>

\* A table must have been allocated: find_cmd reads its first entry.
Execute(t, l) ==
  /\ at[t] = "idle" /\ lock = None /\ table # <<>> /\ runs < MaxRuns
  /\ runs' = runs + 1 /\ lock' = t
  /\ line' = l /\ result' = Outcome(l)
  /\ ptr' = 0 /\ zero' = 0 /\ useLog' = FALSE /\ shown' = <<>> /\ logged' = <<>> /\ out' = 0
  /\ Goto(t, "print")
  /\ UNCHANGED <<tableVars, category>>

Piece(n, room) == [nth |-> n, cut |-> Prints[n].len > room]
SmallerOf(a, b) == IF a < b THEN a ELSE b

\* cmd_log_results resets the buffer after it logged what is in it.
\* vcos_cmd_vprintf with a category logs whole lines and what fills the buffer;
PrintToLog(t) ==
  /\ at[t] = "print" /\ category /\ out < Len(Prints)
  /\ LET n == out + 1  len == Prints[n].len  room == Size - ptr IN
     IF len + 1 >= room \/ Prints[n].line
     THEN /\ logged' = logged \o Append(shown, Piece(n, room - 1))
          /\ shown' = <<>> /\ ptr' = 0 /\ zero' = 0
     ELSE shown' = Append(shown, Piece(n, room - 1)) /\ ptr' = ptr + len /\ zero' = ptr'
          /\ UNCHANGED logged
  /\ out' = out + 1
  /\ UNCHANGED <<tableVars, line, useLog, result, lock, category, at, runs>>

\* Mutant: what is logged stays in the buffer.
PrintKeeps(t) ==
  /\ at[t] = "print" /\ ~category /\ out < Len(Prints)
  /\ LET n == out + 1  len == Prints[n].len  room == Size - ptr IN
     IF len + 1 < room
     THEN /\ shown' = Append(shown, Piece(n, room - 1))
          /\ ptr' = ptr + len /\ zero' = ptr' /\ UNCHANGED <<logged, useLog>>
     ELSE /\ logged' = logged \o shown /\ useLog' = TRUE
          /\ shown' = Append(shown, Piece(n, room - 1))
          /\ ptr' = ptr + len /\ zero' = ptr'
  /\ out' = out + 1
  /\ UNCHANGED <<tableVars, line, result, lock, category, at, runs>>

\* without one it adds to the buffer; what does not fit makes it log the buffer
\* and print again at its start, in the room there was before.
PrintToBuffer(t) ==
  /\ at[t] = "print" /\ ~category /\ out < Len(Prints)
  /\ LET n == out + 1  len == Prints[n].len  room == Size - ptr IN
     IF len + 1 < room
     THEN /\ shown' = IF zero = ptr THEN Append(shown, Piece(n, room - 1)) ELSE shown
          /\ ptr' = ptr + len /\ zero' = (IF zero = ptr THEN ptr' ELSE zero)
          /\ UNCHANGED <<logged, useLog>>
     ELSE /\ logged' = logged \o shown /\ useLog' = TRUE
          /\ shown' = <<Piece(n, room - 1)>>
          /\ ptr' = len /\ zero' = SmallerOf(len, room - 1)
  /\ out' = out + 1
  /\ UNCHANGED <<tableVars, line, result, lock, category, at, runs>>

\* The rest is logged if anything was; the buffer then says "results logged".
Finish(t) ==
  /\ at[t] = "print" /\ out = Len(Prints)
  /\ IF useLog \/ category
     THEN logged' = logged \o shown /\ shown' = <<>>
     ELSE UNCHANGED <<logged, shown>>
  /\ lock' = None /\ Goto(t, "idle")
  /\ UNCHANGED <<tableVars, line, ptr, zero, useLog, out, result, category, runs>>

-----------------------------------------------------------------------------
CmdNext == \E t \in Threads :
  \/ \E c \in Commands : Register(t, c)
  \/ Name(t) \/ Insert(t) \/ InsertFails(t)
  \/ \E l \in Lines : Execute(t, l)
  \/ PrintToLog(t) \/ PrintToBuffer(t) \/ Finish(t)

CmdSpec == CmdInit /\ [][CmdNext]_cmdvars

(* The table is in order and has each command that was registered once,    *)
(* help among them, whatever grew, failed or ran in between.               *)
TableRight ==
  /\ \A i, j \in DOMAIN table : i < j => table[i] < table[j]
  /\ Len(table) <= alloc
  /\ Range(table) \cap refused = {}
  /\ (\A t \in Threads : at[t] \notin {"name", "insert"}) /\ named
       => Range(table) = (asked \cup {Help}) \ refused

(* Every print reaches the caller whole and in order: in the buffer, or in *)
(* the log and then all of them there.                                     *)
OutputWhole ==
  lock = None /\ runs > 0 =>
    /\ shown = <<>> \/ logged = <<>>
    /\ shown \o logged = [n \in 1..out |-> [nth |-> n, cut |-> FALSE]]

(* What is printed next goes inside the buffer.                            *)
InsideBuffer == ptr < Size
=============================================================================
