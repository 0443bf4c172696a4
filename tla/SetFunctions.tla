----------------------------- MODULE SetFunctions -----------------------------
(***************************************************************************)
(* The built-in functions that combine the data of several parties:        *)
(* ordered_set_intersect.rs, ordered_set_join.rs and                       *)
(* private_join_and_compute.rs of function/src, one step per turn of their *)
(* loops, against what they are to compute.  A hash, a field and an        *)
(* identity are numbers; a line that does not parse is BadLine.            *)
(***************************************************************************)
EXTENDS Naturals, Sequences, FiniteSets, SequencesExt, FiniteSetsExt, Functions

CONSTANTS
  Lists,        \* inputs of the set functions, sequences of keys
  Lines,        \* inputs of private_join_and_compute, sequences of lines
  BadLine,
  MaxUsers,     \* bound on num_user
  Modulus       \* 2^32, the range of u32

VARIABLES
  f,        \* the function
  args,     \* its arguments
  in,       \* its input files
  pc,       \* "start", "loop", "ok", "error" or "panicked"
  i, j,     \* positions in the inputs, or the number of the user
  out       \* the outputs

vars == <<f, args, in, pc, i, j, out>>

Goto(l) == pc' = l /\ UNCHANGED <<f, args, in>>
Fail == Goto("error") /\ UNCHANGED <<i, j, out>>

-----------------------------------------------------------------------------
(* builtin-ordered-set-intersect *)

parse_input_data(samples, ascending) ==
  \A n \in 2 .. Len(samples) :
    ~ IF ascending THEN samples[n] < samples[n - 1] ELSE samples[n] > samples[n - 1]

\* The outputs are created before the order is parsed and checked.
intersect_start ==
  /\ f = "intersect" /\ pc = "start"
  /\ IF \A n \in 1 .. 2 : parse_input_data(in[n], args.ascending)
     THEN Goto("loop") /\ i' = 1 /\ j' = 1
          /\ out' = [n \in 1 .. 2 |-> [k \in DOMAIN in[n] |-> FALSE]]
     ELSE Fail

intersection_ordered_vec ==
  /\ f = "intersect" /\ pc = "loop"
  /\ IF i > Len(in[1]) \/ j > Len(in[2]) THEN Goto("ok") /\ UNCHANGED <<i, j, out>>
     ELSE /\ Goto("loop")
          /\ \/ /\ in[1][i] = in[2][j]
                /\ out' = [out EXCEPT ![1][i] = TRUE, ![2][j] = TRUE]
                /\ i' = i + 1 /\ j' = j + 1
             \/ /\ IF args.ascending THEN in[1][i] < in[2][j] ELSE in[1][i] > in[2][j]
                /\ i' = i + 1 /\ UNCHANGED <<j, out>>
             \/ /\ IF args.ascending THEN in[1][i] > in[2][j] ELSE in[1][i] < in[2][j]
                /\ j' = j + 1 /\ UNCHANGED <<i, out>>

-----------------------------------------------------------------------------
(* builtin-ordered-set-join.  A record is <<key, number of its line>>; the *)
(* columns are counted from 1.  The order of the inputs is not checked.    *)

Record(n, k) == <<in[n][k], k>>

drop_column(record, index) == RemoveAt(record, index)

join_start ==
  /\ f = "join" /\ pc = "start"
  /\ IF in[1] # << >> /\ in[2] # << >> THEN Goto("loop") /\ i' = 1 /\ j' = 1 /\ out' = << >>
     ELSE Fail

\* After a match both files are read on; the first one that ends ends the loop.
Read(di, dj) ==
  /\ i' = i + di /\ j' = j + dj
  /\ Goto(IF i' > Len(in[1]) \/ j' > Len(in[2]) THEN "ok" ELSE "loop")

join_step ==
  /\ f = "join" /\ pc = "loop"
  /\ IF args.left > 2 \/ args.right > 2 THEN Fail       \* invalid index
     ELSE LET r1 == Record(1, i)
              r2 == Record(2, j)
              k1 == r1[args.left]
              k2 == r2[args.right]
          IN  \/ /\ k1 = k2
                 /\ out' = Append(out, (IF args.drop THEN drop_column(r1, args.left) ELSE r1)
                                         \o drop_column(r2, args.right))
                 /\ Read(1, 1)
              \/ /\ IF args.ascending THEN k1 < k2 ELSE k1 > k2
                 /\ Read(1, 0) /\ UNCHANGED out
              \/ /\ IF args.ascending THEN k1 > k2 ELSE k1 < k2
                 /\ Read(0, 1) /\ UNCHANGED out

-----------------------------------------------------------------------------
(* builtin-private-join-and-compute *)

\* Lines that do not parse are left out; of the lines for one identity the
\* last one counts.
parse_input(lines) ==
  LET good == {n \in DOMAIN lines : lines[n] # BadLine}
      last(id) == Max({n \in good : lines[n][1] = id})
  IN  [id \in {lines[n][1] : n \in good} |-> lines[last(id)][2]]

\* The sum is one of u32, which wraps when the build does not check it.
get_intersection_sum(map1, map2) ==
  [id \in DOMAIN map1 \cap DOMAIN map2 |-> (map1[id] + map2[id]) % Modulus]

Overflows(map1, map2) ==
  \E id \in DOMAIN map1 \cap DOMAIN map2 : map1[id] + map2[id] >= Modulus

\* Two parties are not enough.
pjc_start_Three ==
  /\ f = "private-join" /\ pc = "start"
  /\ IF args.num_user <= 2 THEN Fail
     ELSE Goto("loop") /\ i' = 1 /\ out' = parse_input(in[1]) /\ UNCHANGED j

pjc_start ==
  /\ f = "private-join" /\ pc = "start"
  /\ IF args.num_user < 2 THEN Fail
     ELSE Goto("loop") /\ i' = 1 /\ out' = parse_input(in[1]) /\ UNCHANGED j

\* An input that is not there is an error.  A build that checks overflow, as
\* a debug build does, panics.
pjc_step ==
  /\ f = "private-join" /\ pc = "loop"
  /\ \/ /\ i < args.num_user /\ i + 1 \in DOMAIN in
        /\ out' = get_intersection_sum(parse_input(in[i + 1]), out)
        /\ i' = i + 1 /\ Goto("loop") /\ UNCHANGED j
     \/ /\ i < args.num_user /\ i + 1 \in DOMAIN in
        /\ Overflows(parse_input(in[i + 1]), out)
        /\ Goto("panicked") /\ UNCHANGED <<i, j, out>>
     \/ i < args.num_user /\ i + 1 \notin DOMAIN in /\ Fail
     \/ i = args.num_user /\ Goto("ok") /\ UNCHANGED <<i, j, out>>

-----------------------------------------------------------------------------
Init ==
  /\ pc = "start" /\ i = 0 /\ j = 0 /\ out = << >>
  /\ \/ /\ f = "intersect"
        /\ in \in [1 .. 2 -> Lists]
        /\ args \in [ascending : BOOLEAN]
     \/ /\ f = "join"
        /\ in \in [1 .. 2 -> Lists]
        /\ args \in [left : {1, 3}, right : {1}, ascending : BOOLEAN, drop : BOOLEAN]
     \/ /\ f = "private-join"
        /\ \E n \in 1 .. MaxUsers : in \in [1 .. n -> Lines]
        /\ args \in [num_user : 1 .. MaxUsers]

Next ==
  \/ intersect_start \/ intersection_ordered_vec
  \/ join_start \/ join_step
  \/ pjc_start \/ pjc_step

Spec == Init /\ [][Next]_vars

-----------------------------------------------------------------------------
Count(s, k) == Cardinality({n \in DOMAIN s : s[n] = k})
Keys == UNION {Range(in[n]) : n \in DOMAIN in}
Sorted(s) ==
  \A m, n \in DOMAIN s : m < n => IF args.ascending THEN s[m] <= s[n] ELSE s[m] >= s[n]
MinOf(a, b) == IF a < b THEN a ELSE b

(* builtin-ordered-set-intersect marks, in both inputs, as many elements   *)
(* of a value as the input with fewer of them has: those in both sets,     *)
(* when a value occurs once.  It ends well only for inputs in the order    *)
(* that the argument names.                                                *)
IntersectionIsExact ==
  f = "intersect" /\ pc = "ok" =>
    \A k \in Keys, n \in 1 .. 2 :
      Cardinality({m \in DOMAIN in[n] : in[n][m] = k /\ out[n][m]})
        = MinOf(Count(in[1], k), Count(in[2], k))

(* "Input data should be sorted by the specified index column"             *)
(* (ordered_set_join.rs:24): for such inputs builtin-ordered-set-join      *)
(* writes the records of equal key in pairs, the first with the first, the *)
(* second with the second and so on, in the order of the first file, and   *)
(* leaves out the column of the second, or of both.                        *)
JoinIsExact ==
  f = "join" /\ pc = "ok" /\ Sorted(in[1]) /\ Sorted(in[2]) =>
    LET nth(n, k) == Count(SubSeq(in[n], 1, k), in[n][k])
        pairs == {p \in (DOMAIN in[1]) \X (DOMAIN in[2]) :
                    in[1][p[1]] = in[2][p[2]] /\ nth(1, p[1]) = nth(2, p[2])}
        rows == SetToSortSeq(pairs, LAMBDA p, q : p[1] < q[1])
    IN  out = [n \in DOMAIN rows |->
                 IF args.drop THEN rows[n] ELSE <<in[1][rows[n][1]]>> \o rows[n]]

(* builtin-private-join-and-compute gives every identity that all users    *)
(* have, and no other, with the sum of the amounts of all users, as a u32, *)
(* whatever the order of the users.  A sum that does not fit wraps in a    *)
(* release build; a debug build panics (private_join_and_compute.rs:107).  *)
SumIsExact ==
  f = "private-join" /\ pc = "ok" =>
    LET users == 1 .. args.num_user
        amount(u, id) == parse_input(in[u])[id]
        common == {id \in DOMAIN parse_input(in[1]) :
                     \A u \in users : id \in DOMAIN parse_input(in[u])}
    IN  out = [id \in common |->
                 FoldFunction(LAMBDA a, b : a + b, 0, [u \in users |-> amount(u, id)]) % Modulus]

\* The amounts of an identity that all users have do not fit in a u32.
SumOverflows ==
  LET maps == [u \in 1 .. args.num_user |-> parse_input(in[u])]
  IN  \E u \in 2 .. args.num_user :
        \E id \in {k \in DOMAIN maps[1] : \A v \in 2 .. u : k \in DOMAIN maps[v]} :
          FoldFunction(LAMBDA a, b : a + b, 0, [v \in 1 .. u |-> maps[v][id]]) >= Modulus

\* With its result, or with an error for arguments or inputs that call for
\* it, or in a panic when a sum does not fit and the build checks that.
EndedWell ==
  \/ pc = "ok"
  \/ pc = "panicked" /\ SumOverflows
  \/ pc = "error" /\
       CASE f = "intersect" -> ~ (Sorted(in[1]) /\ Sorted(in[2]))
         [] f = "join" -> args.left > 2 \/ \E n \in 1 .. 2 : in[n] = << >>
         [] OTHER -> args.num_user < 2 \/ Len(in) < args.num_user
=============================================================================
