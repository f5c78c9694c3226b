--------------------------- MODULE MCOpcuaClient ---------------------------
(***************************************************************************)
(* Values and variants for the client: each type, in each packing, texts     *)
(* with something behind a null character, arrays of one and of two, sizes    *)
(* that are right and wrong, and every rotation of integers.                  *)
(***************************************************************************)
EXTENDS ClientReadings

Plain == Text("abc", FALSE)
Other == Text("xyz", FALSE)
Hidden == Text("abc", TRUE)

SomeArguments ==
  {Value("bool", <<>>, <<1>>), Value("string", <<Hidden>>, <<>>),
   Value("vector", <<>>, <<7, 8>>), Value("keyInt", <<Plain>>, <<3>>),
   Value("keyPose", <<Plain>>, <<7, 8>>), Value("struct", <<>>, <<>>),
   Value("executionStatus", <<EmptyText, Plain, Other>>, <<0, 1>>)}

StatusTexts == <<Plain, EmptyText, Plain>>
Statuses == {Variant("EXECUTIONSTATUS", TRUE, p, StatusTexts, <<0, 1>>) : p \in Packings}

SomeResults ==
  {Variant("STRING", FALSE, "plainly", <<Plain, Hidden>>, <<>>),
   Variant("INT32", TRUE, "plainly", <<>>, <<3>>),
   Variant("DOUBLES", FALSE, "plainly", <<>>, <<7, 8>>),
   Variant("KEYPOSEPAIR", TRUE, "decoded", <<Plain>>, <<7, 8>>),
   Variant("KEYINTPAIR", FALSE, "decoded", <<Plain>>, <<3>>),
   Variant("EXECUTIONSTATUS", TRUE, "overlong", StatusTexts, <<0, 1>>),
   NoVariant}

(* A matrix by its rows, and its sixteen numbers by columns.  *)
Matrices ==
  LET units == {<<1, 0, 0>>, <<-1, 0, 0>>, <<0, 1, 0>>, <<0, -1, 0>>, <<0, 0, 1>>, <<0, 0, -1>>}
  IN  {m \in [1..3 -> units] :
         m[3] = <<m[1][2] * m[2][3] - m[1][3] * m[2][2],
                  m[1][3] * m[2][1] - m[1][1] * m[2][3],
                  m[1][1] * m[2][2] - m[1][2] * m[2][1]>>
         /\ m[3] \in units}

Transform(m, position) ==
  [k \in 1..16 |-> LET r == ((k - 1) % 4) + 1  c == ((k - 1) \div 4) + 1
                   IN  IF r = 4 THEN (IF c = 4 THEN 1 ELSE 0)
                       ELSE IF c = 4 THEN position[r] ELSE m[r][c]]

Vectors(set) == {Variant("DOUBLES", FALSE, "plainly", <<>>, numbers) : numbers \in set}

SomeReported ==
  Statuses
  \cup Vectors({Transform(m, p) : m \in Matrices, p \in {<<5, 6, 7>>, <<5, NotFinite, 7>>}})
  \cup Vectors({[k \in 1..n |-> 10 + k] : n \in {0, 5, 6, 7, 16}})
  \cup {Variant("BOOLEAN", s, "plainly", <<>>, IF s THEN <<n>> ELSE <<n, 1>>) :
          s \in BOOLEAN, n \in {0, 1}}
  \cup {Variant("DOUBLE", TRUE, "plainly", <<>>, <<1>>), NoVariant}
=============================================================================
