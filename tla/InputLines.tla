------------------------------ MODULE InputLines ------------------------------
(***************************************************************************)
(* parse_batch_input of batch_ops.py and the token estimate of tokens.py:  *)
(* the non-blank lines of an input file are read one after the other, and  *)
(* each is accepted with what it reserves, or reported.  A file is any     *)
(* sequence of lines: the next one is chosen when it is read.              *)
(***************************************************************************)
EXTENDS Integers, Sequences, FiniteSets, Functions

CONSTANTS
  Lines,        \* lines a file may have
  DefaultMax,   \* default_max_tokens
  MaxLines      \* bound: lines of one file

(* In the order of the code.                                               *)
Checks == <<"json", "object", "custom_id", "duplicate", "method", "url",
            "body", "messages", "max_tokens">>

NoText == -1

(* flaws: the checks a line fails by itself; max: its max_tokens, or no    *)
(* element (true is an int for Python, 1); messages: for each message, the *)
(* lengths of its text parts (NoText: a part without text) and of its      *)
(* name, or raw: an element of the list that is no JSON object.            *)
ASSUME LinesAssumption ==
  /\ \A line \in Lines :
       /\ line.flaws \subseteq Range(Checks) \ {"duplicate"}
       /\ line.messages \in Seq([raw : BOOLEAN, parts : Seq(Nat \cup {NoText}), name : Nat])
       /\ line.messages = <<>> => line.flaws # {}
       /\ line.max = <<>> \/ (line.max \in Seq(Int) /\ Len(line.max) = 1)
       /\ (line.max # <<>> /\ line.flaws = {}) => line.max[1] > 0
  /\ DefaultMax \in Nat \ {0}
  /\ MaxLines \in Nat

VARIABLES
  file,     \* the lines read so far
  parsed,   \* the lines accepted, as ParsedLine (the first line is line 1)
  errors,   \* the lines reported: index, and the check that failed
  seen,     \* seen_custom_ids
  outcome   \* "reading", or how the parse ended

inputVars == <<file, parsed, errors, seen, outcome>>

InputTypeOK ==
  /\ file \in Seq(Lines) /\ Len(file) <= MaxLines
  /\ Range(parsed) \subseteq
       [line_index : 1..Len(file), custom_id : {line.id : line \in Lines},
        prompt_tokens : Nat, max_tokens : Nat \ {0}]
  /\ Range(errors) \subseteq [line_index : 1..Len(file), check : Range(Checks)]
  /\ seen \subseteq {line.id : line \in Lines}
  /\ outcome \in {"reading", "accepted", "rejected", "failed"}

InputInit ==
  /\ file = <<>> /\ parsed = <<>> /\ errors = <<>> /\ seen = {}
  /\ outcome = "reading"

-----------------------------------------------------------------------------
(* tokens.py                                                               *)

(* Variant: the division forgets the last, incomplete token.               *)
WholeTokens(length) == length \div 4

count_text_tokens(length) == (length + 3) \div 4

(* The text parts of a message, joined by single spaces.                   *)
TextParts(parts) == {i \in DOMAIN parts : parts[i] # NoText}

MessageLength(parts) ==
  IF TextParts(parts) = {} THEN 0
  ELSE SumFunctionOnSet(parts, TextParts(parts)) + Cardinality(TextParts(parts)) - 1

(* A missing or empty name adds nothing: its length is zero.               *)
estimate_prompt_tokens(messages) ==
  2 + SumFunction([i \in DOMAIN messages |->
        4 + count_text_tokens(MessageLength(messages[i].parts))
          + count_text_tokens(messages[i].name)])

-----------------------------------------------------------------------------
(* Variant: an id is only compared with the one before.                    *)
FailsSeldom(line, check) ==
  IF check = "duplicate" THEN parsed # <<>> /\ parsed[Len(parsed)].custom_id = line.id
                         ELSE check \in line.flaws

Fails(line, check) ==
  IF check = "duplicate" THEN line.id \in seen ELSE check \in line.flaws

(* Each failing check ends with continue: the first one is reported.       *)
FirstFailure(line) ==
  LET failing == {i \in DOMAIN Checks : Fails(line, Checks[i])} IN
  IF failing = {} THEN "none"
  ELSE Checks[CHOOSE i \in failing : \A j \in failing : i <= j]

Read(line) ==
  /\ outcome = "reading" /\ Len(file) < MaxLines
  /\ file' = Append(file, line)

Report(line) ==
  /\ Read(line) /\ FirstFailure(line) # "none"
  /\ errors' = Append(errors, [line_index |-> Len(file'), check |-> FirstFailure(line)])
  /\ UNCHANGED <<parsed, seen, outcome>>

Accept(line) ==
  /\ Read(line) /\ FirstFailure(line) = "none"
  /\ \A i \in DOMAIN line.messages : ~line.messages[i].raw
  /\ seen' = seen \cup {line.id}
  /\ parsed' = Append(parsed,
       [line_index |-> Len(file'), custom_id |-> line.id,
        prompt_tokens |-> estimate_prompt_tokens(line.messages),
        max_tokens |-> IF line.max = <<>> THEN DefaultMax ELSE line.max[1]])
  /\ UNCHANGED <<errors, outcome>>

(* message.get of an element that is no object: an AttributeError, a       *)
(* server error instead of a report of the line.                           *)
Crash(line) ==
  /\ Read(line) /\ FirstFailure(line) = "none"
  /\ \E i \in DOMAIN line.messages : line.messages[i].raw
  /\ seen' = seen \cup {line.id}
  /\ outcome' = "failed"
  /\ UNCHANGED <<parsed, errors>>

(* The end of the file: no line at all, or any error, rejects it.          *)
EndOfFile ==
  /\ outcome = "reading"
  /\ outcome' = IF file = <<>> \/ errors # <<>> THEN "rejected" ELSE "accepted"
  /\ UNCHANGED <<file, parsed, errors, seen>>

InputNext == (\E line \in Lines : Report(line) \/ Accept(line) \/ Crash(line)) \/ EndOfFile

InputSpec == InputInit /\ [][InputNext]_inputVars

-----------------------------------------------------------------------------
(* What a line deserves, told from the whole file and without the set of   *)
(* ids: no flaw of its own, and no earlier flawless line with its id.      *)
Sound(i) ==
  /\ file[i].flaws = {}
  /\ \A j \in 1..(i - 1) : file[j].id = file[i].id => file[j].flaws # {}

(* Every line read is accepted if it is sound and reported if it is not,   *)
(* once, under its index in the file, and an id that only a refused line   *)
(* has used is free; a file is accepted when it has lines and all of them  *)
(* are sound (parse_batch_input).                                          *)
LinesAnswered ==
  LET done == IF outcome = "failed" THEN DOMAIN file \ {Len(file)} ELSE DOMAIN file
  IN /\ Len(parsed) + Len(errors) = Cardinality(done)
     /\ {parsed[k].line_index : k \in DOMAIN parsed} = {i \in done : Sound(i)}
     /\ {errors[k].line_index : k \in DOMAIN errors} = {i \in done : ~Sound(i)}
     /\ outcome \in {"accepted", "rejected"} =>
          (outcome = "accepted" <=> file # <<>> /\ \A i \in done : Sound(i))

Characters(messages) ==
  SumFunction([i \in DOMAIN messages |->
    SumFunctionOnSet(messages[i].parts, TextParts(messages[i].parts)) + messages[i].name])

(* The reservation of an accepted line is on the safe side: a token for    *)
(* four characters of all its text on top of the overhead of each message, *)
(* and the output its request allows (tokens.py, "conservative").          *)
ReservesEnough ==
  \A k \in DOMAIN parsed :
    LET line == file[parsed[k].line_index] IN
    /\ 4 * (parsed[k].prompt_tokens - 2 - 4 * Len(line.messages)) >= Characters(line.messages)
    /\ line.max # <<>> => parsed[k].max_tokens >= line.max[1]
===============================================================================
