------------------------------- MODULE FsPath -------------------------------
(***************************************************************************)
(* The path class of the file-system library that the HTTP example serves  *)
(* files with (examples/http/inner/filesystem.hpp, POSIX branch: no long   *)
(* path prefix, so _prefixLength is 0 throughout).  A path is its string,  *)
(* a sequence of characters; positions are 0-based as in the code, and     *)
(* position Len(s) is end().                                               *)
(***************************************************************************)
EXTENDS Integers, Sequences, SequencesExt, FiniteSetsExt

CONSTANTS MaxPath,    \* longest string of the path object
          MaxArg      \* longest string handed to an operation

VARIABLES p,          \* the path object
          arg         \* the path it is combined with

pvars == <<p, arg>>

Sep == "/"
Chars == {"/", ".", "a"}

(* The order of the characters' codes. *)
Code == [c \in Chars |-> CASE c = "." -> 46 [] c = "/" -> 47 [] c = "a" -> 97]

At(s, i) == s[i + 1]
Sub(s, i, j) == SubSeq(s, i + 1, j)          \* the characters of [i, j)
Find(s, i) == Min({j \in i .. Len(s) : j = Len(s) \/ At(s, j) = Sep})

(* std::unique over the separators. *)
Unique(s) ==
    FoldLeft(LAMBDA acc, c : IF c = Sep /\ acc # <<>> /\ Last(acc) = Sep
                             THEN acc ELSE Append(acc, c),
             <<>>, s)

NetworkName(s) ==
    Len(s) > 2 /\ At(s, 0) = Sep /\ At(s, 1) = Sep /\ At(s, 2) # Sep

postprocess_path_with_format(s) ==
    IF NetworkName(s) THEN Sub(s, 0, 2) \o Unique(Sub(s, 2, Len(s))) ELSE Unique(s)

Path(s) == postprocess_path_with_format(s)

-----------------------------------------------------------------------------
(* Roots and queries. *)

root_name_length(s) == IF NetworkName(s) THEN Find(s, 3) ELSE 0

has_root_name(s) == root_name_length(s) > 0

has_root_directory(s) ==
    LET n == root_name_length(s) IN Len(s) > n /\ At(s, n) = Sep

is_absolute(s) == has_root_directory(s)

rootPathLen(s) == root_name_length(s) + IF has_root_directory(s) THEN 1 ELSE 0

root_name(s) == Path(Sub(s, 0, root_name_length(s)))
root_directory(s) == IF has_root_directory(s) THEN <<Sep>> ELSE <<>>
root_path(s) == Path(root_name(s) \o root_directory(s))
relative_path(s) == Path(Sub(s, Min({rootPathLen(s), Len(s)}), Len(s)))
has_relative_path(s) == rootPathLen(s) < Len(s)

-----------------------------------------------------------------------------
(* Iterators: a position and the element it shows. *)

Root(s) == IF has_root_directory(s) THEN root_name_length(s) ELSE Len(s)

increment(s, i) ==
    LET j == i + 1
        OnSep == j # Len(s) /\ At(s, j) = Sep
    IN  CASE i = Len(s) -> i
          [] i # Len(s) /\ At(s, i) # Sep -> Find(s, j)
          [] i # Len(s) /\ At(s, i) = Sep /\ ~OnSep -> j
          [] i # Len(s) /\ At(s, i) = Sep /\ OnSep ->
                IF i = 0 /\ ~(j + 1 # Len(s) /\ At(s, j + 1) = Sep)
                THEN Find(s, j + 1)
                ELSE Min({k \in j .. Len(s) : k = Len(s) \/ At(s, k) # Sep})

decrement(s, pos) ==
    LET i == pos - 1
        base == Max({0} \cup {k + 1 : k \in {k \in 0 .. i - 1 : At(s, k) = Sep}})
    IN  CASE pos = 0 -> 0
          [] pos > 0 /\ (i = Root(s) \/ (pos = Len(s) /\ At(s, i) = Sep)) -> i
          [] OTHER -> IF base = 2 /\ At(s, 0) = Sep /\ At(s, 1) = Sep THEN 0 ELSE base

updateCurrent(s, i) ==
    IF \/ i = Len(s)
       \/ i # 0 /\ At(s, i) = Sep /\ i # Root(s) /\ i + 1 = Len(s)
    THEN <<>>
    ELSE Path(Sub(s, i, increment(s, i)))

(* operator++ *)
next(s, i) ==
    Min({j \in increment(s, i) .. Len(s) :
            j = Len(s) \/ j = Root(s) \/ At(s, j) # Sep \/ j + 1 = Len(s)})

(* for (auto e : path) and the same walk with operator-- from end(). *)
Elements(s) ==
    LET From[i \in 0 .. Len(s)] ==
            IF i = Len(s) THEN <<>> ELSE <<updateCurrent(s, i)>> \o From[next(s, i)]
    IN  From[0]

Backward(s) ==
    LET To[i \in 0 .. Len(s)] ==
            IF i = 0 THEN <<>>
            ELSE LET j == decrement(s, i) IN Append(To[j], updateCurrent(s, j))
    IN  To[Len(s)]

LastElement(s) == updateCurrent(s, decrement(s, Len(s)))       \* *--end()

-----------------------------------------------------------------------------
(* Decomposition. *)

filename(s) == IF has_relative_path(s) THEN Path(LastElement(s)) ELSE <<>>

has_filename(s) == has_relative_path(s) /\ filename(s) # <<>>

parent_path(s) ==
    LET i == decrement(s, Len(s))
        j == IF i > rootPathLen(s) /\ At(s, i) # Sep THEN i - 1 ELSE i
    IN  IF rootPathLen(s) < Len(s) THEN Path(Sub(s, 0, j)) ELSE s

Dot == <<".">>
DotDot == <<".", ".">>

rfindDot(s) == Max({-1} \cup {i \in 0 .. Len(s) - 1 : At(s, i) = "."})

stem(s) ==
    LET fn == filename(s)  pos == rfindDot(fn)
    IN  IF fn \notin {Dot, DotDot} /\ pos > 0 THEN Path(Sub(fn, 0, pos)) ELSE Path(fn)

extension(s) ==
    LET fn == LastElement(s)  pos == rfindDot(fn)
    IN  IF has_relative_path(s) /\ pos > 0 THEN Path(Sub(fn, pos, Len(fn))) ELSE <<>>

-----------------------------------------------------------------------------
(* Comparison: compare() < 0, = 0, > 0 as -1, 0, 1. *)

(* std::mismatch *)
Mismatch(s, t) ==
    Min({k \in 1 .. Len(s) + 1 :
            k > Len(s) \/ k > Len(t) \/ s[k] # t[k]})

(* The order of two strings that differ first at d. *)
OrderAt(s, t, d) ==
    CASE d > Len(s) -> IF d > Len(t) THEN 0 ELSE -1
      [] d <= Len(s) /\ d > Len(t) -> 1
      [] OTHER -> IF Code[s[d]] < Code[t[d]] THEN -1 ELSE 1

(* std::string::compare *)
string_compare(s, t) == OrderAt(s, t, Mismatch(s, t))

(* The parts after the roots: a separator comes before every character. *)
CompareRest(s, t, d) ==
    CASE d <= Len(s) /\ d <= Len(t) /\ s[d] = Sep -> -1
      [] d <= Len(s) /\ d <= Len(t) /\ s[d] # Sep /\ t[d] = Sep -> 1
      [] OTHER -> OrderAt(s, t, d)

AfterRoot(s) == Sub(s, rootPathLen(s), Len(s))

compare(s, t) ==
    LET rnc == string_compare(Sub(s, 0, root_name_length(s)),
                              Sub(t, 0, Min({root_name_length(s), root_name_length(t)})))
    IN  CASE rnc # 0 -> rnc
          [] rnc = 0 /\ has_root_directory(s) # has_root_directory(t) ->
                IF has_root_directory(s) THEN 1 ELSE -1
          [] OTHER -> CompareRest(AfterRoot(s), AfterRoot(t), Mismatch(AfterRoot(s), AfterRoot(t)))

Same(s, t) == compare(s, t) = 0                                \* operator==

-----------------------------------------------------------------------------
(* Modifiers. *)

WithSep(s) == IF s = <<>> \/ Last(s) # Sep THEN Append(s, Sep) ELSE s

(* The elements after the root name, and their way into the string. *)
AfterName(s, es) == IF has_root_name(s) THEN Tail(es) ELSE es

AppendParts(start, parts) ==
    IF parts = <<>> THEN start
    ELSE FoldLeft(LAMBDA acc, e : WithSep(acc) \o e, start \o Head(parts), Tail(parts))

(* operator/= *)
append(s, q) ==
    LET start == CASE has_root_directory(q) -> root_name(s)
                   [] ~has_root_directory(q) /\ has_filename(s) -> Append(s, Sep)
                   [] OTHER -> s
    IN  CASE q = <<>> -> IF s # <<>> /\ Last(s) # Sep THEN Append(s, Sep) ELSE s
          [] q # <<>> /\ \/ is_absolute(q) /\ (s # root_name(s) \/ q # <<Sep>>)
                         \/ has_root_name(q) /\ ~Same(root_name(q), root_name(s)) -> q
          [] OTHER -> AppendParts(start, AfterName(q, Elements(q)))

(* append_name: what a directory entry adds to its directory. *)
append_name(s, name) == IF s = <<>> THEN append(s, Path(name)) ELSE WithSep(s) \o name

concat(s, q) == Path(s \o Path(q))

remove_filename(s) ==
    IF has_filename(s) THEN Sub(s, 0, Len(s) - Len(filename(s))) ELSE s

replace_filename(s, q) == append(remove_filename(s), q)

replace_extension(s, q) ==
    LET bare == IF extension(s) # <<>> THEN Sub(s, 0, Len(s) - Len(extension(s))) ELSE s
    IN  concat(IF q # <<>> /\ q[1] # "." THEN Append(bare, ".") ELSE bare, q)

-----------------------------------------------------------------------------
(* Generation. *)

(* One element of lexically_normal's loop; st holds dest and lastDotDot.
   Mutant: a ".." is taken off whatever stands before it, another ".."
   included. *)
NormalStepAnyDotDot(s, st, e) ==
    CASE e = Dot -> [st EXCEPT !.dest = append(@, <<>>)]
      [] e = DotDot /\ st.dest # <<>> ->
            IF Same(st.dest, root_path(s)) THEN st
            ELSE [st EXCEPT !.dest = remove_filename(IF Last(@) = Sep THEN Front(@) ELSE @)]
      [] OTHER -> [dest |-> IF e = <<>> /\ st.lastDotDot THEN st.dest ELSE append(st.dest, e),
                   lastDotDot |-> e = DotDot]

NormalStep(s, st, e) ==
    CASE e = Dot -> [st EXCEPT !.dest = append(@, <<>>)]
      [] e = DotDot /\ st.dest # <<>> /\ Same(st.dest, root_path(s)) -> st
      [] e = DotDot /\ st.dest # <<>> /\ ~Same(st.dest, root_path(s))
                    /\ ~Same(LastElement(st.dest), DotDot) ->
            [st EXCEPT !.dest = remove_filename(IF Last(@) = Sep THEN Front(@) ELSE @)]
      [] OTHER -> [dest |-> IF e = <<>> /\ st.lastDotDot THEN st.dest ELSE append(st.dest, e),
                   lastDotDot |-> e = DotDot]

lexically_normal(s) ==
    LET dest == FoldLeft(LAMBDA st, e : NormalStep(s, st, e),
                         [dest |-> <<>>, lastDotDot |-> FALSE], Elements(s)).dest
    IN  IF dest = <<>> THEN Dot ELSE dest

(* How many directories the elements of es climb down. *)
Depth(es) ==
    FoldLeft(LAMBDA n, e : CASE e = DotDot -> n - 1
                             [] e \in {Dot, <<>>} -> n
                             [] OTHER -> n + 1,
             0, es)

(* Up from the rest of base's elements, and down along those of the path. *)
UpAndDown(up, down) ==
    IF up = <<>> /\ down = <<>> THEN Dot
    ELSE IF Depth(up) < 0 THEN <<>>
    ELSE FoldLeft(append, <<>>, [i \in 1 .. Depth(up) |-> DotDot] \o down)

AfterCommon(a, b) ==
    LET d == Min({k \in 1 .. Len(a) + 1 : k > Len(a) \/ k > Len(b) \/ ~Same(a[k], b[k])})
    IN  UpAndDown(SubSeq(b, d, Len(b)), SubSeq(a, d, Len(a)))

lexically_relative(s, base) ==
    IF ~Same(root_name(s), root_name(base)) \/ is_absolute(s) # is_absolute(base) THEN <<>>
    ELSE AfterCommon(Elements(s), Elements(base))

lexically_proximate(s, base) ==
    LET r == lexically_relative(s, base) IN IF r = <<>> THEN s ELSE r

-----------------------------------------------------------------------------
(* A program with a path object, calling any modifier with any short path. *)

Strings(n) == UNION {[1 .. k -> Chars] : k \in 0 .. n}

PathInit == p \in {Path(s) : s \in Strings(MaxPath)} /\ arg \in {Path(s) : s \in Strings(MaxArg)}

Assign(s) == Len(s) <= MaxPath /\ p' = s /\ UNCHANGED arg

PathNext ==
    \/ Assign(append(p, arg))
    \/ Assign(concat(p, arg))
    \/ Assign(append_name(p, <<"a">>))
    \/ Assign(remove_filename(p))
    \/ Assign(replace_filename(p, arg))
    \/ Assign(replace_extension(p, arg))
    \/ Assign(lexically_normal(p))
    \/ Assign(lexically_proximate(p, arg))

-----------------------------------------------------------------------------
(* What a path means: where its elements lead from a starting directory,
   when no directory is a symbolic link. *)
Climb(stack, e, rooted) ==
    CASE e \in {<<>>, Dot, <<Sep>>} -> stack
      [] e = DotDot /\ stack # <<>> /\ Last(stack) # DotDot -> Front(stack)
      [] e = DotDot /\ (stack = <<>> \/ Last(stack) = DotDot) ->
            IF rooted THEN stack ELSE Append(stack, e)
      [] OTHER -> Append(stack, e)

Meaning(s) ==
    <<root_path(s), FoldLeft(LAMBDA k, e : Climb(k, e, is_absolute(s)), <<>>,
                             AfterName(s, Elements(s)))>>

(* Walking a path's elements forwards and backwards shows the same elements,
   and appending them one after the other to an empty path gives the path
   back (operator++, operator--, updateCurrent, operator/=). *)
IteratesBothWays ==
    /\ Elements(p) = Backward(p)
    /\ FoldLeft(append, <<>>, Elements(p)) = p

(* The parts a path is taken into put it together again: root path and
   relative path, parent path and file name, stem and extension (except for
   "..", whose extension() is "." although stem() is ".."). *)
SplitsAndJoins ==
    /\ concat(root_path(p), relative_path(p)) = p
    /\ has_filename(p) => append(parent_path(p), filename(p)) = p
    /\ filename(p) # DotDot => stem(p) \o extension(p) = filename(p)

NoNeedless(n, stack) ==
    SelectSeq(Elements(relative_path(n)), LAMBDA e : e # <<>>) =
        IF stack = <<>> /\ root_path(n) = <<>> THEN <<Dot>> ELSE stack

LeadsTo(n, b, r) ==
    r # <<>> /\ ~has_root_name(n) /\ ~has_root_name(b) => Meaning(append(b, r)) = Meaning(n)

RelativeLeads(n, b) == LeadsTo(n, b, lexically_relative(n, b))

NormalLeads(n) == Meaning(n) = Meaning(p) /\ NoNeedless(n, Meaning(p)[2])

(* lexically_normal leads where the path leads, with no element left out of
   the result that could be dropped (a second call may still drop the
   separator after a last ".."); the path lexically_relative finds between
   two normal paths without a network name leads from the second to where the
   first leads. *)
NormalKeepsMeaning ==
    /\ NormalLeads(lexically_normal(p))
    /\ RelativeLeads(lexically_normal(p), lexically_normal(arg))

(* compare() is an order on paths without a network name: antisymmetric, and
   equality means the same string. *)
CompareIsOrder ==
    ~has_root_name(p) /\ ~has_root_name(arg) =>
        /\ compare(p, arg) = -compare(arg, p)
        /\ compare(p, arg) = 0 <=> p = arg

(* The laws of the path class together: a request's file name is appended to
   the current directory and a directory's entries to the directory, so the
   HTTP example serves the file it names only if all of them hold. *)
PathLaws == IteratesBothWays /\ SplitsAndJoins /\ NormalKeepsMeaning /\ CompareIsOrder
=============================================================================
