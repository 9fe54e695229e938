-------------------------------- MODULE Walk --------------------------------
(***************************************************************************)
(* Three programs of bloque02 that walk a directory tree while others may  *)
(* change it: e09_walk_recursivo, which gives up at the first error, and   *)
(* two that print what matches, e10_minifind_basico, which goes on and     *)
(* remembers that there was an error, and the project's minifind, which    *)
(* goes on and says nothing.                                               *)
(*                                                                         *)
(* A path is the sequence of its names, <<>> the one of the command line.  *)
(* Between readdir, lstat and opendir of one name the tree may change.     *)
(* What readdir says of a name that comes or goes while its directory is   *)
(* open is not determined.  Out of this model: memory that runs out, paths *)
(* of more than 4095 bytes, and a directory that is replaced by a link     *)
(* after its lstat.                                                        *)
(***************************************************************************)
EXTENDS Naturals, Sequences, FiniteSets

CONSTANTS
  Trees,        \* the trees that are walked: path -> [type, size, readable]
  Newcomers,    \* bound: what others may put into them, [path, entry]
  Filters,      \* struct filters: [name, type, size], each {} or the set of a value
  BaseName,     \* what a name filter compares the base with
  MaxOpen,      \* the directories that a process may have open
  MaxChanges    \* bound

VARIABLES
  prog,       \* "walk", "basic" or "project"
  filter,
  first, fs,  \* the tree at the start and now
  touched,    \* the paths that others have changed
  stack,      \* the open directories: path and names to come
  cur,        \* the path that lstat or opendir gets
  at,         \* "lstat", "open", "read" or "end"
  printed, had_error

vars == <<prog, filter, first, fs, touched, stack, cur, at, printed, had_error>>

Init ==
  /\ prog \in {"walk", "basic", "project"}
  /\ filter \in IF prog = "walk" THEN {[name |-> {}, type |-> {}, size |-> {}]} ELSE Filters
  /\ first \in Trees /\ fs = first
  /\ touched = {} /\ stack = <<>> /\ cur = <<>>
  /\ at = IF prog = "project" THEN "open" ELSE "lstat"
  /\ printed = <<>> /\ had_error = FALSE

\* A path is the sequence of the names under the base: what join_path has put together.
Parent(p) == SubSeq(p, 1, Len(p) - 1)
NameOf(p) == p[Len(p)]
Under(p, q) == Len(p) <= Len(q) /\ SubSeq(q, 1, Len(p)) = p

Children(tree, p) == {NameOf(q) : q \in {q \in DOMAIN tree : q # <<>> /\ Parent(q) = p}}

IsDir(tree, p) == p \in DOMAIN tree /\ tree[p].type = "d"

Passes(v, option) == option = {} \/ v \in option

\* matches, match_filters
Matches(p, e) ==
  /\ Passes(IF p = <<>> THEN BaseName ELSE NameOf(p), filter.name)
  /\ Passes(e.type, filter.type)
  /\ Passes(e.size, filter.size)

\* What comes after a path: the next name of the directory it is in.
After(open) == IF open = <<>> THEN "end" ELSE "read"

\* A slip of AfterError: e10 gives up as well.
AfterErrorStops ==
  /\ had_error' = TRUE
  /\ at' = IF prog = "project" THEN After(stack) ELSE "end"
  /\ stack' = IF prog = "project" THEN stack ELSE <<>>

\* An lstat or an opendir that failed.  The returns of e09 close what is open.
AfterError ==
  /\ had_error' = (had_error \/ prog # "project")
  /\ at' = IF prog = "walk" THEN "end" ELSE After(stack)
  /\ stack' = IF prog = "walk" THEN <<>> ELSE stack

\* lstat of what readdir named (of the base, to begin with), and the print.
Lstat ==
  /\ at = "lstat"
  /\ IF cur \in DOMAIN fs
     THEN /\ printed' = IF Matches(cur, fs[cur]) THEN Append(printed, cur) ELSE printed
          /\ at' = IF IsDir(fs, cur) THEN "open" ELSE After(stack)
          /\ UNCHANGED <<stack, had_error>>
     ELSE AfterError /\ UNCHANGED printed
  /\ UNCHANGED <<prog, filter, first, fs, touched, cur>>

Opens(p) == IsDir(fs, p) /\ fs[p].readable /\ Len(stack) < MaxOpen

\* opendir
Opendir ==
  /\ at = "open"
  /\ IF Opens(cur)
     THEN /\ stack' = Append(stack, [path |-> cur, left |-> Children(fs, cur)])
          /\ at' = "read"
          /\ UNCHANGED had_error
     ELSE AfterError
  /\ UNCHANGED <<prog, filter, first, fs, touched, cur, printed>>

Top == stack[Len(stack)]

\* readdir: any of the names to come.
Readdir ==
  /\ at = "read"
  /\ \E n \in Top.left :
       /\ stack' = [stack EXCEPT ![Len(stack)].left = @ \ {n}]
       /\ \/ cur' = Append(Top.path, n) /\ at' = "lstat"
          \/ Append(Top.path, n) \notin DOMAIN fs /\ UNCHANGED <<cur, at>>
  /\ UNCHANGED <<prog, filter, first, fs, touched, printed, had_error>>

\* readdir has no more: closedir.
Closedir ==
  /\ at = "read" /\ Top.left = {}
  /\ stack' = SubSeq(stack, 1, Len(stack) - 1)
  /\ at' = After(stack')
  /\ UNCHANGED <<prog, filter, first, fs, touched, cur, printed, had_error>>

MayChange == at # "end" /\ Cardinality(touched) < MaxChanges

\* What is left when p goes, with what is in it.
Spared(p) == {q \in DOMAIN fs : ~Under(p, q)}

\* Somebody removes a file or a directory with what is in it.
Vanish ==
  /\ MayChange
  /\ \E p \in DOMAIN fs \ ({<<>>} \union touched) :
       /\ fs' = [q \in Spared(p) |-> fs[q]]
       /\ touched' = touched \union {p}
  /\ UNCHANGED <<prog, filter, first, stack, cur, at, printed, had_error>>

\* Somebody puts an entry where there is none, or in the place of another.
\* An open directory may or may not tell of it (one that has been replaced would not:
\* the model lets it, and so a path that others have touched may be printed twice).
Put ==
  /\ MayChange
  /\ \E c \in Newcomers :
       /\ c.path \notin touched /\ IsDir(fs, Parent(c.path))
       /\ fs' = [q \in Spared(c.path) \union {c.path} |-> IF q = c.path THEN c.entry ELSE fs[q]]
       /\ touched' = touched \union {c.path}
       /\ stack' \in {stack,
                      [i \in DOMAIN stack |->
                         IF stack[i].path = Parent(c.path) /\ c.path \notin DOMAIN fs
                         THEN [stack[i] EXCEPT !.left = @ \union {NameOf(c.path)}]
                         ELSE stack[i]]}
  /\ UNCHANGED <<prog, filter, first, cur, at, printed, had_error>>

Ended == at = "end" /\ UNCHANGED vars

Walks == Lstat \/ Opendir \/ Readdir \/ Closedir

Next == Walks \/ Vanish \/ Put \/ Ended

Spec == Init /\ [][Next]_vars

\* main's result.
rc == IF had_error THEN 1 ELSE 0

-----------------------------------------------------------------------------

Untouched(p) == \A q \in touched : ~Under(q, p)

\* The paths that were there all the time, in directories that could be opened.
Above(p) == {q \in DOMAIN first : q # p /\ Under(q, p)}
Stable == {p \in DOMAIN first :
             /\ Untouched(p)
             /\ \A q \in Above(p) : first[q].readable
             /\ Len(p) <= MaxOpen}

\* Whatever others do to the tree meanwhile: what was there all the time, could be
\* reached and matches is printed, once, by the programs that go on and by the one
\* that gives up if it reports success; nothing else that was there all the time is
\* printed; where errors are remembered, success means that no directory which was
\* there all the time was left out, and failure that something was.
WalkIsHonest ==
  /\ \A i, j \in DOMAIN printed : i # j /\ Untouched(printed[i]) => printed[i] # printed[j]
  /\ at = "end" =>
       /\ stack = <<>>
       /\ prog # "walk" \/ rc = 0 =>
            \A p \in Stable :
              (\E i \in DOMAIN printed : printed[i] = p)
              <=> (Matches(p, first[p]) /\ (prog = "project" => p # <<>>))
       /\ prog # "project" /\ rc = 0 =>
            \A p \in Stable : IsDir(first, p) => first[p].readable /\ Len(p) < MaxOpen
       /\ rc = 1 => \/ touched # {}
                    \/ \E p \in DOMAIN first :
                         IsDir(first, p) /\ (~first[p].readable \/ Len(p) >= MaxOpen)
=============================================================================
