---------------------------- MODULE CommandLine -----------------------------
(***************************************************************************)
(* What ./nexus makes of its arguments.  They are strings; what stoi and   *)
(* stod read in one is given by the table Number.                          *)
(***************************************************************************)
EXTENDS Integers, SequencesExt

CONSTANT Number   \* the strings that stoi and stod can read -> integers

Options == {"-node", "-name", "-ip", "-port", "-x", "-y"}
Numeric == {"-port", "-x", "-y"}

(* NodeType::fromString.                                                   *)
FromString(string) ==
    CASE string \in {"ground", "Ground"}       -> "ground"
      [] string \in {"satellite", "Satellite"} -> "satellite"
      [] OTHER                                 -> "unknown"

\* mutant: the last option is not looked at
PairsButLast(argv) == 1 .. (Len(argv) \div 2) - 1

(* An option and the value behind it.                                      *)
Pairs(argv) == 1 .. Len(argv) \div 2
Option(argv, n) == argv[2 * n - 1]
Value(argv, n) == argv[2 * n]

(* The last value of an option counts; one that is not given has none.     *)
Given(argv, option) ==
    LET places == {n \in Pairs(argv) : Option(argv, n) = option}
    IN  IF places = {} THEN "" ELSE Value(argv, Max(places))

(* The loop ends at the first pair it cannot read: an option it does not   *)
(* know, or a number that makes stoi or stod throw.                        *)
IsUnknown(argv, n) == Option(argv, n) \notin Options
IsNoNumber(argv, n) ==
    Option(argv, n) \in Numeric /\ Value(argv, n) \notin DOMAIN Number

EndsAt(argv, n) ==
    /\ IsUnknown(argv, n) \/ IsNoNumber(argv, n)
    /\ \A k \in 1 .. (n - 1) : ~IsUnknown(argv, k) /\ ~IsNoNumber(argv, k)

(* What main returns before it creates the node; 0 if it does create it.   *)
Uncaught == -1

ExitCode(argv) ==
    IF Len(argv) # 12 THEN 1
    ELSE IF \E n \in Pairs(argv) : EndsAt(argv, n) /\ IsUnknown(argv, n) THEN 2
    ELSE IF \E n \in Pairs(argv) : EndsAt(argv, n) THEN Uncaught
    ELSE IF FromString(Given(argv, "-node")) = "unknown" THEN 3
    ELSE 0
=============================================================================
