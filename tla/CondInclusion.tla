--------------------------- MODULE CondInclusion ---------------------------
(***************************************************************************)
(* What #if, #ifdef, #ifndef, #elif, #else and #endif promise: groups nest *)
(* within one file, a line takes effect exactly when every group around it *)
(* is selected, and at most one branch of a group is.  Files are read line *)
(* by line; an #include may be left unread only when reading it would have *)
(* no effect at all.                                                       *)
(***************************************************************************)
EXTENDS Naturals, Sequences, SequencesExt

CONSTANTS
    Main,       \* the file a unit starts with: its lines are arbitrary
    Lines       \* the lines there are: [op, arg]

VARIABLES
    content,    \* content[h]: the lines of header h; never changes
    files,      \* the open files, [name, pos]: pos lines were read
    groups,     \* groups[i]: the open groups of files[i], outermost first
    defs        \* the defined macros

vars == <<content, files, groups, defs>>

\* "seek": no branch was selected yet; "on": this one is; "done": a previous
\* one was.
Group == [st : {"seek", "on", "done"}, els : BOOLEAN]

IsOpen(l) == l.op \in {"if", "ifndef"}
IsNext(l) == l.op \in {"elif", "else"}
IsEnd(l)  == l.op = "endif"
Conditional(l) == IsOpen(l) \/ IsNext(l) \/ IsEnd(l)

\* The value of the controlling expression of a line.
Holds(l, D) ==
    CASE l.op \in {"if", "elif"} -> l.arg \in D
      [] l.op = "ifndef"         -> l.arg \notin D
      [] OTHER                   -> TRUE

AllOn(G) == \A i \in 1 .. Len(G) : G[i].st = "on"

\* The groups G of a file, in an active region or not, after the conditional
\* line l.
Opened(G, l, D, outer) ==
    Append(G, [st  |-> IF ~ (outer /\ AllOn(G)) THEN "done"
                       ELSE IF Holds(l, D) THEN "on" ELSE "seek",
               els |-> FALSE])

Continued(G, l, D, outer) ==
    LET g == Last(G)
    IN  IF ~ (outer /\ AllOn(Front(G))) THEN G
        ELSE Append(Front(G),
                    [st  |-> IF g.st = "seek" /\ Holds(l, D) THEN "on"
                             ELSE IF g.st = "on" THEN "done" ELSE g.st,
                     els |-> l.op = "else"])

Continuable(G) == G # <<>> /\ ~ Last(G).els

After(G, l, D, outer) ==
    CASE IsOpen(l)                    -> Opened(G, l, D, outer)
      [] IsNext(l) /\ Continuable(G)  -> Continued(G, l, D, outer)
      [] IsEnd(l) /\ G # <<>>         -> Front(G)
      [] OTHER                        -> G

\* Reading the lines c with the macros D defined has no effect.
Inert(c, D) ==
    LET G[i \in 0 .. Len(c)] ==
            IF i = 0 THEN <<>> ELSE After(G[i - 1], c[i], D, TRUE)
    IN  \A i \in 1 .. Len(c) : Conditional(c[i]) \/ ~ AllOn(G[i - 1])

-----------------------------------------------------------------------------

Active == \A i \in 1 .. Len(groups) : AllOn(groups[i])

OuterActive == \A i \in 1 .. Len(groups) - 1 : AllOn(groups[i])

\* The lines one of which is the next of the current file.
NextLines ==
    IF files = <<>> THEN {}
    ELSE LET f == Last(files)
         IN  IF f.name = Main THEN Lines
             ELSE {content[f.name][i] : i \in DOMAIN content[f.name] \cap {f.pos + 1}}

Advanced ==
    LET f == Last(files)
    IN  Append(Front(files), [f EXCEPT !.pos = IF f.name = Main THEN 0 ELSE @ + 1])

Start ==
    /\ files = <<>>
    /\ files' = <<[name |-> Main, pos |-> 0]>>
    /\ groups' = << <<>> >>
    /\ UNCHANGED <<content, defs>>

ConditionalLine(l) ==
    /\ Conditional(l)
    /\ IsNext(l) /\ OuterActive /\ AllOn(Front(Last(groups))) =>
          Continuable(Last(groups))
    /\ IsEnd(l) => Last(groups) # <<>>
    /\ groups' = Append(Front(groups), After(Last(groups), l, defs, OuterActive))
    /\ files' = Advanced
    /\ UNCHANGED <<content, defs>>

\* A line in a group that is not selected.
IgnoredLine(l) ==
    /\ ~ Conditional(l) /\ ~ Active
    /\ files' = Advanced
    /\ UNCHANGED <<content, groups, defs>>

\* Text, or a directive with no effect on the inclusion of lines.
TextLine(l) ==
    /\ l.op \in {"text", "line"} /\ Active
    /\ files' = Advanced
    /\ UNCHANGED <<content, groups, defs>>

DefineLine(l) ==
    /\ l.op \in {"define", "undef"} /\ Active
    /\ files' = Advanced
    /\ defs' = IF l.op = "define" THEN defs \cup {l.arg} ELSE defs \ {l.arg}
    /\ UNCHANGED <<content, groups>>

IncludeLine(l) ==
    /\ l.op = "include" /\ Active
    /\ \/ /\ files' = Append(Advanced, [name |-> l.arg, pos |-> 0])
          /\ groups' = Append(groups, <<>>)
       \/ /\ Inert(content[l.arg], defs)
          /\ files' = Advanced
          /\ UNCHANGED groups
    /\ UNCHANGED <<content, defs>>

\* The groups of a file are closed before its end.
Leave ==
    /\ Len(files) > 1
    /\ Last(files).pos = Len(content[Last(files).name])
    /\ Last(groups) = <<>>
    /\ files' = Front(files)
    /\ groups' = Front(groups)
    /\ UNCHANGED <<content, defs>>

\* The end of the unit, or an error: no file stays open, and no macro that
\* was not defined becomes so.
Stop ==
    /\ files # <<>>
    /\ files' = <<>> /\ groups' = <<>>
    /\ defs' \subseteq defs
    /\ UNCHANGED content

LineStep(l) ==
    \/ ConditionalLine(l) \/ IgnoredLine(l) \/ TextLine(l)
    \/ DefineLine(l) \/ IncludeLine(l)

Next == Start \/ Leave \/ Stop \/ \E l \in NextLines : LineStep(l)
=============================================================================
