---------------------------- MODULE CaptureNames ----------------------------
(***************************************************************************)
(* RegexMatcher::capture_names() of src/shared/regex_search.cpp: the scan  *)
(* over the text of a compiled pattern that finds the names of its capture *)
(* groups, which become the column names of str_match().                   *)
(*                                                                         *)
(* A pattern is written as a sequence of elements, so that the groups the  *)
(* compiler sees in it are known; the scan sees only its characters.       *)
(***************************************************************************)
EXTENDS Integers, Sequences, SequencesExt, FiniteSetsExt

CONSTANT Patterns       \* the patterns explored, sequences of elements

VARIABLES
    elements,   \* the pattern
    pos,        \* the position of the UText, behind current
    current,    \* the character the loop looks at
    name,       \* the name being read
    names,      \* what capture_names() returns
    pc          \* which loop it is in

vars == <<elements, pos, current, name, names, pc>>

-----------------------------------------------------------------------------
(* Patterns.                                                               *)

Chars == [literal |-> <<"x">>,
          escape  |-> <<"\\", "(">>,
          class   |-> <<"[", "(", "]">>,
          group   |-> <<"(">>,
          cluster |-> <<"(", "?", ":">>,
          behind  |-> <<"(", "?", "<", "=">>,
          named_n |-> <<"(", "?", "<", "n", ">">>,
          named_m |-> <<"(", "?", "<", "m", ">">>,
          close   |-> <<")">>]
Element == DOMAIN Chars
NameOf == [group |-> "", named_n |-> "n", named_m |-> "m"]
Capturing == DOMAIN NameOf
Opening == Capturing \cup {"cluster", "behind"}

CountOf(e, s) == Cardinality({k \in 1..Len(s) : s[k] \in e})

\* What the compiler accepts: balanced groups, and no name twice.
IsPattern(s) ==
    /\ s \in Seq(Element)
    /\ \A k \in 0..Len(s) :
         CountOf({"close"}, SubSeq(s, 1, k)) <= CountOf(Opening, SubSeq(s, 1, k))
    /\ CountOf({"close"}, s) = CountOf(Opening, s)
    /\ CountOf({"named_n"}, s) <= 1 /\ CountOf({"named_m"}, s) <= 1

chars == FlattenSeq([k \in 1..Len(elements) |-> Chars[elements[k]]])
groups == SelectSeq(elements, LAMBDA e : e \in Capturing)
group_count == Len(groups)

\* The name of every group, in the order of their numbers.
GroupNames == [g \in 1..group_count |-> NameOf[groups[g]]]

\* RegexPattern::groupNumberFromName(); 0 when it fails.
groupNumberFromName(n) ==
    IF n # "" /\ \E g \in 1..group_count : GroupNames[g] = n
    THEN CHOOSE g \in 1..group_count : GroupNames[g] = n ELSE 0

-----------------------------------------------------------------------------
(* The scan.                                                               *)

EndOfText == "end"
\* The character k places behind the one the loop looks at, and the position
\* of the UText after it was read.
next32(k) == IF pos + k <= Len(chars) THEN chars[pos + k] ELSE EndOfText
Read(k) ==
    /\ current' = next32(k)
    /\ pos' = Min({pos + k, Len(chars)})

unnamed == [g \in 1..group_count |-> ""]

Init ==
    /\ elements \in Patterns /\ IsPattern(elements)
    /\ pos = IF chars = <<>> THEN 0 ELSE 1
    /\ current = IF chars = <<>> THEN EndOfText ELSE chars[1]
    /\ name = "" /\ pc = "scan"
    /\ names = unnamed

\* Without a group there is no name to look for.
NoGroups ==
    /\ pc = "scan" /\ group_count = 0
    /\ pc' = "done"
    /\ UNCHANGED <<elements, pos, current, name, names>>

Scanning == pc = "scan" /\ group_count > 0

\* Mutant: the loop stays at the backslash.
unescaped_length == 0
\* A backslash and the character behind it.
escaped_length == 2

Escape ==
    /\ Scanning /\ current = "\\"
    /\ Read(escaped_length)
    /\ UNCHANGED <<elements, name, names, pc>>

Class ==
    /\ Scanning /\ current = "["
    /\ Read(1) /\ pc' = "class"
    /\ UNCHANGED <<elements, name, names>>

InClass ==
    /\ pc = "class"
    /\ IF current \in {"]", EndOfText}
       THEN Read(1) /\ pc' = "scan"
       ELSE Read(IF current = "\\" THEN 2 ELSE 1) /\ UNCHANGED pc
    /\ UNCHANGED <<elements, name, names>>

\* An opening parenthesis; unless "?<" follows, the scan goes on behind the
\* character that told so.
Open ==
    /\ Scanning /\ current = "("
    /\ IF next32(1) # "?" THEN Read(2) /\ UNCHANGED <<name, pc>>
       ELSE IF next32(2) # "<" THEN Read(3) /\ UNCHANGED <<name, pc>>
       ELSE Read(3) /\ name' = "" /\ pc' = "name"
    /\ UNCHANGED <<elements, names>>

\* The column of a name; a number that is no group names nothing.
column_of(n) == groupNumberFromName(n)

InName ==
    /\ pc = "name"
    /\ IF current \in {"n", "m", "x"}
       THEN name' = name \o current /\ UNCHANGED <<names, pc>>
       ELSE /\ names' = IF current = ">" /\ column_of(name) \in 1..group_count
                        THEN [names EXCEPT ![column_of(name)] = name] ELSE names
            /\ pc' = "scan" /\ UNCHANGED name
    /\ Read(1)
    /\ UNCHANGED elements

Other ==
    /\ Scanning /\ current \notin {"\\", "[", "(", EndOfText}
    /\ Read(1)
    /\ UNCHANGED <<elements, name, names, pc>>

End ==
    /\ Scanning /\ current = EndOfText
    /\ pc' = "done"
    /\ UNCHANGED <<elements, pos, current, name, names>>

Step == NoGroups \/ Escape \/ Class \/ InClass \/ Open \/ InName \/ Other \/ End
Finished == pc = "done" /\ UNCHANGED vars

Next == Step \/ Finished

\* The scan is one loop of the calling thread.
Spec == Init /\ [][Next]_vars /\ WF_vars(Step)

-----------------------------------------------------------------------------
\* Type invariant: the scan stays on the pattern and there is one name, or
\* none, for every group.
TypeOK ==
    /\ pos \in 0..Len(chars)
    /\ current \in {chars[k] : k \in 1..Len(chars)} \cup {EndOfText}
    /\ pc \in {"scan", "class", "name", "done"}
    /\ names \in [1..group_count -> {"", "n", "m"}]

\* Whatever the scan takes for the start of a group, in a class or behind an
\* escape, a name is given only to the group that has it (the number comes
\* from groupNumberFromName).
NamesAreSound == \A g \in 1..group_count : names[g] \in {"", GroupNames[g]}

\* No plain group starts with what the scan reads past: a parenthesis, or the
\* backslash of one.
PlainStart ==
    \A k \in 1..(Len(elements) - 1) :
        elements[k] = "group" => elements[k + 1] \notin Opening \cup {"escape"}

\* Every named group has its name when plain groups start with a character of
\* their own, however groups nest and whatever classes hold (capture_names).
NamesAreFound == (pc = "done" /\ PlainStart) => names = GroupNames

\* str_match() names its columns after the named groups: every one of them has
\* its name once the scan is done (R/match.R, lines 18 and 19).
ColumnsAreNamed == pc = "done" => names = GroupNames

\* The scan of every pattern comes to its end.
ScanEnds == <>(pc = "done")

=============================================================================
