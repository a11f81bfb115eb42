------------------------------ MODULE Startup ------------------------------
(***************************************************************************)
(* metadata(): the parameters of a StartupMessage, which scenarios select  *)
(* connections by, read from every body of at most MaxBody bytes.  Names   *)
(* and values end with a zero byte, and so does the list of them.          *)
(***************************************************************************)
EXTENDS Naturals, Sequences, FiniteSets, FiniteSetsExt

CONSTANTS
    Byte,          \* the bytes of a body: "0", which ends a text, and others
    MaxBody,       \* bound: bytes of a body
    None           \* absent, or an error

ASSUME StartupAssumption == "0" \in Byte /\ MaxBody \in Nat

Key == [user |-> <<"u">>, database |-> <<"d">>, application_name |-> <<"a">>]

Default == [k \in DOMAIN Key |-> None]

(***************************************************************************)
(* cstr(): the bytes before the first zero and those after it.             *)
(***************************************************************************)
Zeros(bytes) == {k \in DOMAIN bytes : bytes[k] = "0"}

Text(bytes) == SubSeq(bytes, 1, Min(Zeros(bytes)) - 1)

After(bytes) == SubSeq(bytes, Min(Zeros(bytes)) + 1, Len(bytes))

EndsPacket(tail) == tail = <<>>

FirstWins(m, key, value) ==                            \* mutant: later values dropped
    [k \in DOMAIN m |-> IF Key[k] = key /\ m[k] = None THEN value ELSE m[k]]

SetParameter(m, key, value) == [k \in DOMAIN m |-> IF Key[k] = key THEN value ELSE m[k]]

RECURSIVE Parameters(_, _)
Parameters(rest, m) ==
    IF Zeros(rest) = {} THEN None
    ELSE IF Text(rest) = <<>> THEN (IF EndsPacket(After(rest)) THEN m ELSE None)
    ELSE IF Zeros(After(rest)) = {} THEN None
    ELSE Parameters(After(After(rest)), SetParameter(m, Text(rest), Text(After(rest))))

Metadata(bytes) == Parameters(bytes, Default)

-----------------------------------------------------------------------------
(***************************************************************************)
(* What PostgreSQL makes of a body: its texts are names and values in      *)
(* turn, the names not empty, and an empty text at its end; of two values  *)
(* for a name it takes the later; and a session whose packet names no      *)
(* database, or an empty one, is on the database named like its user.      *)
(***************************************************************************)
NthZero(bytes, n) ==
    CHOOSE k \in Zeros(bytes) : Cardinality({j \in Zeros(bytes) : j <= k}) = n

NthText(bytes, n) ==
    SubSeq(bytes, IF n = 1 THEN 1 ELSE NthZero(bytes, n - 1) + 1, NthZero(bytes, n) - 1)

WellFormed(bytes) ==
    LET n == Cardinality(Zeros(bytes))
    IN  /\ n % 2 = 1 /\ bytes[Len(bytes)] = "0"
        /\ \A k \in 1 .. n : k % 2 = 1 => (NthText(bytes, k) = <<>> <=> k = n)

GivenValue(bytes, key) ==
    LET names == {k \in 1 .. Cardinality(Zeros(bytes)) - 1 :
                     k % 2 = 1 /\ NthText(bytes, k) = key}
    IN  IF names = {} THEN None ELSE NthText(bytes, Max(names) + 1)

NamesDatabase(bytes) == GivenValue(bytes, Key.database) \notin {None, <<>>}

ServerValue(bytes, k) ==
    IF k = "database" /\ ~NamesDatabase(bytes) THEN GivenValue(bytes, Key.user)
    ELSE GivenValue(bytes, Key[k])

VARIABLE body

StartupInit == body = <<>>

StartupNext == Len(body) < MaxBody /\ \E b \in Byte : body' = Append(body, b)

StartupSpec == StartupInit /\ [][StartupNext]_body

(***************************************************************************)
(* metadata() refuses a packet exactly if it is malformed, so no client    *)
(* that the server would accept is turned away; and a selector sees the    *)
(* user and the application name the server takes, also when a name is     *)
(* given twice or with an empty value.  The database it sees is the        *)
(* server's only if the packet names one: a session on the database of its *)
(* user's name by default has none, or an empty one, and no selector on a  *)
(* database selects it.                                                    *)
(***************************************************************************)
ParametersSeen ==
    LET seen == Metadata(body)
    IN  IF ~WellFormed(body) THEN seen = None
        ELSE \A k \in DOMAIN Key :
                IF k = "database" /\ ~NamesDatabase(body) THEN seen[k] \in {None, <<>>}
                ELSE seen[k] = ServerValue(body, k)
=============================================================================
