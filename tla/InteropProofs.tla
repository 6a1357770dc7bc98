--------------------------- MODULE InteropProofs ---------------------------
(***************************************************************************)
(* Interop for every number of clients, every choice of the sections they  *)
(* are built with and every number of calls: types, the references to the  *)
(* servant, what one thread of the server guarantees, which checks fail    *)
(* and what the verdict of a client is about.                              *)
(***************************************************************************)
EXTENDS Interop, FiniteSetTheorems, TLAPS

Checks == {"echo", "none", "green", "first", "next", "user", "unknown", "all", "oneway",
           "one", "two"}
Oneways == {"oneway_void_proc", "oneway_checker"}

(* The tests of the three programs, and those of all_types_client: what is *)
(* checked fits the operation that is called.                              *)
Tests ==
  {t \in [op : Interface \cup Oneways, calls : Nat \ {0}, check : Checks, lines : 0 .. 2] :
     t.op = "oneway_void_proc" => t.check = "oneway"}
Suited(t) ==
  /\ t.check = "echo" => t.op \in EchoOps
  /\ t.check = "none" => t.op \in EchoOps \cup {"set_myColor"} /\ t.lines = 0
  /\ t.check = "green" => t.op = "get_myColor"
  /\ t.check = "first" => t.op = "Counter" /\ t.lines = 0
  /\ t.check = "next" => t.op = "Counter" /\ t.calls = 1
  /\ t.check = "user" => t.op = "testException" /\ t.lines = 1
  /\ t.check = "unknown" => t.op = "testUnknownException" /\ t.lines = 1
StaticTests ==
  {t \in [op : Interface, calls : Nat \ {0},
          check : Checks \ {"all", "oneway", "one", "two"}, lines : 0 .. 2] : Suited(t)}

(* A check of an attribute follows the call that it is about; the test of  *)
(* the user exception is the last but one.                                 *)
Chained(p) ==
  \A i \in 1 .. Len(p) :
    /\ p[i].check = "green" => i > 1 /\ p[i - 1].op = "set_myColor"
    /\ p[i].check = "next" => i > 1 /\ p[i - 1].check = "first"
UserBeforeLast(p) ==
  \A i \in 1 .. Len(p) :
    p[i].check = "user" => i + 1 = Len(p) /\ p[i + 1].check = "unknown"
Programs == {p \in Seq(StaticTests) : Chained(p) /\ UserBeforeLast(p)}
Sections == {p \in Programs : \A i \in 1 .. Len(p) : p[i].check # "user"}

----------------------------------------------------------------------------
(* The programs                                                            *)

(* The tests of the sections.                                              *)
LEMMA TestsOK ==
  ASSUME NEW n \in Nat \ {0}, NEW op \in EchoOps
  PROVE  /\ \A k \in 0 .. 2 : /\ Test(op, n, "echo", k) \in StaticTests
                               /\ Test(op, n, "echo", k).check = "echo"
         /\ Test(op, n, "none", 0) \in StaticTests /\ Test(op, n, "none", 0).check = "none"
<1>1. op \in Interface
  BY DEF Interface
<1>2. ASSUME NEW k \in 0 .. 2 PROVE Test(op, n, "echo", k) \in StaticTests
  BY <1>1 DEF Test, StaticTests, Suited, Checks
<1>3. Test(op, n, "none", 0) \in StaticTests
  BY <1>1 DEF Test, StaticTests, Suited, Checks
<1>4. /\ \A k \in 0 .. 2 : Test(op, n, "echo", k).check = "echo"
      /\ Test(op, n, "none", 0).check = "none"
  BY DEF Test
<1>5. QED BY <1>2, <1>3, <1>4

(* A sequence without checks of an attribute is a section, and sections    *)
(* that follow one another are one.                                        *)
LEMMA PlainSection ==
  ASSUME NEW p \in Seq(StaticTests),
         \A i \in 1 .. Len(p) : p[i].check \notin {"green", "next", "user"}
  PROVE  p \in Sections
BY DEF Sections, Programs, Chained, UserBeforeLast

LEMMA PlainTests ==
  ASSUME NEW a \in StaticTests, NEW b \in StaticTests,
         a.check \notin {"green", "next", "user"}, b.check \notin {"green", "next", "user"}
  PROVE  <<>> \in Sections /\ <<a>> \in Sections /\ <<a, b>> \in Sections
<1>1. <<>> \in Seq(StaticTests) /\ <<a>> \in Seq(StaticTests) /\ <<a, b>> \in Seq(StaticTests)
  OBVIOUS
<1>2. <<>> \in Sections
  <2>1. Len(<<>>) = 0 /\ 1 .. 0 = {}
    OBVIOUS
  <2>2. \A i \in 1 .. Len(<<>>) : <<>>[i].check \notin {"green", "next", "user"}
    BY <2>1
  <2>3. QED BY <1>1, <2>2, PlainSection
<1>3. <<a>> \in Sections
  <2>1. Len(<<a>>) = 1 /\ \A i \in 1 .. 1 : i = 1
    OBVIOUS
  <2>2. \A i \in 1 .. Len(<<a>>) : <<a>>[i].check \notin {"green", "next", "user"}
    BY <2>1
  <2>3. QED BY <1>1, <2>2, PlainSection
<1>4. <<a, b>> \in Sections
  <2>1. Len(<<a, b>>) = 2 /\ \A i \in 1 .. 2 : i = 1 \/ i = 2
    OBVIOUS
  <2>2. \A i \in 1 .. Len(<<a, b>>) : <<a, b>>[i].check \notin {"green", "next", "user"}
    BY <2>1
  <2>3. QED BY <1>1, <2>2, PlainSection
<1>5. QED BY <1>2, <1>3, <1>4

LEMMA JoinedLast ==
  ASSUME NEW p \in Sections, NEW q \in Programs
  PROVE  /\ p \o q \in Programs /\ Len(p \o q) = Len(p) + Len(q)
         /\ q \in Sections => p \o q \in Sections
<1>1. /\ p \in Seq(StaticTests) /\ q \in Seq(StaticTests) /\ Chained(p) /\ Chained(q)
      /\ Len(p) \in Nat /\ Len(q) \in Nat /\ UserBeforeLast(q)
      /\ \A i \in 1 .. Len(p) : p[i].check # "user"
  BY DEF Sections, Programs
<1>2. /\ p \o q \in Seq(StaticTests) /\ Len(p \o q) = Len(p) + Len(q)
      /\ \A i \in 1 .. Len(p) : (p \o q)[i] = p[i]
      /\ \A i \in 1 .. Len(q) : (p \o q)[i + Len(p)] = q[i]
  BY <1>1
<1>3. ASSUME NEW i \in 1 .. Len(p \o q)
      PROVE  /\ (p \o q)[i].check = "green" => i > 1 /\ (p \o q)[i - 1].op = "set_myColor"
             /\ (p \o q)[i].check = "next" => i > 1 /\ (p \o q)[i - 1].check = "first"
             /\ (p \o q)[i].check = "user" =>
                  i + 1 = Len(p \o q) /\ (p \o q)[i + 1].check = "unknown"
             /\ q \in Sections => (p \o q)[i].check # "user"
  <2>1. CASE i <= Len(p)
    <3>1. i \in 1 .. Len(p) /\ (i > 1 => i - 1 \in 1 .. Len(p))
      BY <1>1, <2>1
    <3>2. QED BY <1>1, <1>2, <3>1 DEF Chained
  <2>2. CASE i > Len(p)
    <3>1. PICK j \in 1 .. Len(q) : i = j + Len(p)
      <4>1. i - Len(p) \in 1 .. Len(q) /\ i = (i - Len(p)) + Len(p)
        BY <1>1, <1>2, <2>2
      <4>2. QED BY <4>1
    <3>2. (p \o q)[i] = q[j]
      BY <1>2, <3>1
    <3>3. j > 1 => j - 1 \in 1 .. Len(q) /\ i - 1 = (j - 1) + Len(p) /\ i > 1
      BY <1>1, <3>1
    <3>4. j > 1 => (p \o q)[i - 1] = q[j - 1]
      BY <1>2, <3>3
    <3>5. q[j].check = "user" =>
            i + 1 = Len(p \o q) /\ (p \o q)[i + 1].check = "unknown"
      <4> SUFFICES ASSUME q[j].check = "user"
                   PROVE  i + 1 = Len(p \o q) /\ (p \o q)[i + 1].check = "unknown"
        OBVIOUS
      <4>1. j + 1 = Len(q) /\ q[j + 1].check = "unknown"
        BY <1>1 DEF UserBeforeLast
      <4>2. j + 1 \in 1 .. Len(q) /\ i + 1 = (j + 1) + Len(p)
        BY <1>1, <3>1, <4>1
      <4>3. (p \o q)[i + 1] = q[j + 1]
        BY <1>2, <4>2
      <4>4. Len(p \o q) = Len(p) + Len(q) /\ Len(p) \in Nat /\ Len(q) \in Nat
        BY <1>1, <1>2
      <4>5. i + 1 = Len(p \o q)
        BY <4>1, <4>2, <4>4
      <4>6. QED BY <4>1, <4>3, <4>5
    <3>6. q \in Sections => q[j].check # "user"
      BY DEF Sections
    <3>7. QED BY <1>1, <3>1, <3>2, <3>3, <3>4, <3>5, <3>6 DEF Chained
  <2>3. QED BY <1>1, <2>1, <2>2
<1>4. p \o q \in Programs
  BY <1>2, <1>3 DEF Programs, Chained, UserBeforeLast
<1>5. QED BY <1>2, <1>3, <1>4 DEF Sections

LEMMA Joined ==
  ASSUME NEW p \in Sections, NEW q \in Sections
  PROVE  p \o q \in Sections /\ Len(p \o q) = Len(p) + Len(q)
<1>1. q \in Programs
  BY DEF Sections
<1>2. QED BY <1>1, JoinedLast

(* One echo test for each operation.                                       *)
LEMMA EachTests ==
  ASSUME NEW ops \in Seq(EchoOps)
  PROVE  Each(ops) \in Sections /\ Len(Each(ops)) = Len(ops)
<1>1. Len(ops) \in Nat /\ DOMAIN ops = 1 .. Len(ops)
  OBVIOUS
<1>2. ASSUME NEW i \in 1 .. Len(ops)
      PROVE  Test(ops[i], 1, "echo", 1) \in StaticTests /\ Test(ops[i], 1, "echo", 1).check = "echo"
  BY <1>1, TestsOK
<1>3. /\ Each(ops) \in [1 .. Len(ops) -> StaticTests]
      /\ \A i \in 1 .. Len(ops) : Each(ops)[i].check = "echo"
  BY <1>1, <1>2 DEF Each
<1>4. Each(ops) \in Seq(StaticTests) /\ Len(Each(ops)) = Len(ops)
  BY <1>1, <1>3
<1>5. QED BY <1>3, <1>4, PlainSection

(* The calls through a reference that came back.                           *)
LEMMA ObjectTestsOK == ObjectTests \in Sections /\ Len(ObjectTests) <= 12
<1> DEFINE Through(op, n) == <<Test(op, n, "none", 0), Test("echoLong", 1, "echo", 1)>>
           Ref == <<Test("echoRef", 1, "none", 0)>>
<1>1. {"echoRef", "echoOtherAllTypes", "echoObject", "echoOtherObject", "echoLong"}
        \subseteq EchoOps
  BY DEF EchoOps, ByValue, Duplicated, Borrowed
<1>2. ASSUME NEW op \in EchoOps, NEW n \in Nat \ {0}
      PROVE  Through(op, n) \in Sections /\ Len(Through(op, n)) <= 2
  <2>1. PICK a, b : a = Test(op, n, "none", 0) /\ b = Test("echoLong", 1, "echo", 1)
    OBVIOUS
  <2>2. /\ a \in StaticTests /\ b \in StaticTests /\ a.check = "none" /\ b.check = "echo"
    BY <1>1, <2>1, TestsOK
  <2>3. <<a, b>> \in Sections
    BY <2>2, PlainTests
  <2>4. QED BY <2>1, <2>3
<1>3. Ref \in Sections /\ Len(Ref) <= 1
  <2>1. PICK a : a = Test("echoRef", 1, "none", 0)
    OBVIOUS
  <2>2. a \in StaticTests /\ a.check = "none"
    BY <1>1, <2>1, TestsOK
  <2>3. <<a>> \in Sections
    BY <2>2, PlainTests
  <2>4. QED BY <2>1, <2>3
<1>4. ObjectTests =
        Through("echoRef", 1) \o Through("echoRef", RefRepeats)
          \o Through("echoOtherAllTypes", 1) \o Ref \o Through("echoObject", 1)
          \o Ref \o Through("echoOtherObject", 1)
  BY DEF ObjectTests
<1>5. RefRepeats \in Nat \ {0}
  BY InteropAssumption
<1> DEFINE A == Through("echoRef", 1)
           B == Through("echoRef", RefRepeats)
           C == Through("echoOtherAllTypes", 1)
           D == Through("echoObject", 1)
           E == Through("echoOtherObject", 1)
<1>6. /\ A \in Sections /\ Len(A) <= 2
      /\ B \in Sections /\ Len(B) <= 2
      /\ C \in Sections /\ Len(C) <= 2
      /\ D \in Sections /\ Len(D) <= 2
      /\ E \in Sections /\ Len(E) <= 2
  BY <1>1, <1>2, <1>5
<1>7. ObjectTests = A \o B \o C \o Ref \o D \o Ref \o E
  BY <1>4
<1> HIDE DEF A, B, C, D, E, Ref
<1>8. A \o B \in Sections /\ Len(A \o B) <= 4
  BY <1>6, Joined
<1>9. A \o B \o C \in Sections /\ Len(A \o B \o C) <= 6
  BY <1>6, <1>8, Joined
<1>10. A \o B \o C \o Ref \in Sections /\ Len(A \o B \o C \o Ref) <= 7
  BY <1>3, <1>9, Joined
<1>11. A \o B \o C \o Ref \o D \in Sections /\ Len(A \o B \o C \o Ref \o D) <= 9
  BY <1>6, <1>10, Joined
<1>12. /\ A \o B \o C \o Ref \o D \o Ref \in Sections
       /\ Len(A \o B \o C \o Ref \o D \o Ref) <= 10
  BY <1>3, <1>11, Joined
<1>13. QED BY <1>6, <1>7, <1>12, Joined

(* The other sections.                                                     *)
LEMMA SectionsOK ==
  /\ SimpleTypes \in Sections /\ Len(SimpleTypes) <= 11
  /\ EnumAndSequences \in Sections /\ Len(EnumAndSequences) <= 3
  /\ ArraysAndStructs \in Sections /\ Len(ArraysAndStructs) <= 5
  /\ Unions \in Sections /\ Len(Unions) <= 1
  /\ AttributeTests \in Sections /\ Len(AttributeTests) <= 4
  /\ Money \in Sections /\ Len(Money) <= 1
  /\ ExceptionTests \in Programs /\ Len(ExceptionTests) <= 2
<1>1. SimpleTypes \in Sections /\ Len(SimpleTypes) <= 11
  <2> DEFINE ops == <<"echoBoolean", "echoShort", "echoLong", "echoUShort", "echoULong",
                      "echoFloat", "echoFloat", "echoDouble", "echoChar", "echoOctet",
                      "echoString">>
  <2>1. ops \in Seq(EchoOps) /\ Len(ops) = 11
    BY DEF EchoOps, ByValue, ByCopy, Composite
  <2>2. SimpleTypes = Each(ops)
    BY DEF SimpleTypes
  <2> HIDE DEF ops
  <2>3. Each(ops) \in Sections /\ Len(Each(ops)) = 11
    BY <2>1, EachTests
  <2>4. QED BY <2>2, <2>3
<1>2. EnumAndSequences \in Sections /\ Len(EnumAndSequences) <= 3
  <2> DEFINE ops == <<"echoColor", "echoUsequence">>
             last == <<Test("echoBsequence", 1, "echo", 2)>>
  <2>1. ops \in Seq(EchoOps) /\ Len(ops) = 2
    BY DEF EchoOps, ByValue, ByCopy, Composite
  <2>2. last \in Sections /\ Len(last) = 1
    <3>1. PICK a : a = Test("echoBsequence", 1, "echo", 2)
      OBVIOUS
    <3>2. "echoBsequence" \in EchoOps
      BY DEF EchoOps, ByCopy
    <3>3. a \in StaticTests /\ a.check = "echo"
      BY <3>1, <3>2, TestsOK
    <3>4. <<a>> \in Sections
      BY <3>3, PlainTests
    <3>5. QED BY <3>1, <3>4
  <2>3. EnumAndSequences = Each(ops) \o last
    BY DEF EnumAndSequences
  <2> HIDE DEF ops, last
  <2>4. Each(ops) \in Sections /\ Len(Each(ops)) = 2
    BY <2>1, EachTests
  <2>5. Each(ops) \o last \in Sections /\ Len(Each(ops) \o last) = 2 + 1
    BY <2>2, <2>4, Joined
  <2>6. QED BY <2>3, <2>5
<1>3. ArraysAndStructs \in Sections /\ Len(ArraysAndStructs) <= 5
  <2> DEFINE ops == <<"echoArray", "echoMatrix", "echoBigMatrix", "echoStruct",
                      "echoArrayStruct">>
  <2>1. ops \in Seq(EchoOps) /\ Len(ops) = 5
    BY DEF EchoOps, ByValue, ByCopy, Composite
  <2>2. ArraysAndStructs = Each(ops)
    BY DEF ArraysAndStructs
  <2> HIDE DEF ops
  <2>3. Each(ops) \in Sections /\ Len(Each(ops)) = 5
    BY <2>1, EachTests
  <2>4. QED BY <2>2, <2>3
<1>4. Unions \in Sections /\ Len(Unions) <= 1
  <2>1. PICK a : a = Test("echoUnion", 4, "echo", 1)
    OBVIOUS
  <2>2. "echoUnion" \in EchoOps
    BY DEF EchoOps, Composite
  <2>3. a \in StaticTests /\ a.check = "echo"
    BY <2>1, <2>2, TestsOK
  <2>4. <<a>> \in Sections
    BY <2>3, PlainTests
  <2>5. QED BY <2>1, <2>4 DEF Unions
<1>5. AttributeTests \in Sections /\ Len(AttributeTests) <= 4
  <2>1. PICK a, b, d, e :
          /\ a = Test("set_myColor", 1, "none", 0) /\ b = Test("get_myColor", 1, "green", 1)
          /\ d = Test("Counter", 1, "first", 0) /\ e = Test("Counter", 1, "next", 1)
    OBVIOUS
  <2>2. {"set_myColor", "get_myColor", "Counter"} \subseteq Interface
    BY DEF Interface, Attributes
  <2>3. /\ a \in StaticTests /\ a.op = "set_myColor" /\ a.check = "none"
        /\ b \in StaticTests /\ b.check = "green"
        /\ d \in StaticTests /\ d.check = "first"
        /\ e \in StaticTests /\ e.check = "next"
    BY <2>1, <2>2 DEF Test, StaticTests, Suited, Checks
  <2>4. <<a, b, d, e>> \in Seq(StaticTests)
    BY <2>3
  <2>5. /\ Chained(<<a, b, d, e>>) /\ Len(<<a, b, d, e>>) = 4
        /\ \A i \in 1 .. Len(<<a, b, d, e>>) : <<a, b, d, e>>[i].check # "user"
    <3>1. ASSUME NEW i \in 1 .. 4 PROVE i = 1 \/ i = 2 \/ i = 3 \/ i = 4
      OBVIOUS
    <3>2. QED BY <2>3, <3>1 DEF Chained
  <2>6. <<a, b, d, e>> \in Sections
    BY <2>4, <2>5 DEF Sections, Programs, UserBeforeLast
  <2>7. QED BY <2>1, <2>5, <2>6 DEF AttributeTests
<1>6. Money \in Sections /\ Len(Money) <= 1
  <2> DEFINE ops == <<"echoMoney">>
  <2>1. ops \in Seq(EchoOps) /\ Len(ops) = 1
    BY DEF EchoOps, ByValue, ByCopy, Composite
  <2>2. Money = Each(ops)
    BY DEF Money
  <2> HIDE DEF ops
  <2>3. Each(ops) \in Sections /\ Len(Each(ops)) = 1
    BY <2>1, EachTests
  <2>4. QED BY <2>2, <2>3
<1>7. ExceptionTests \in Programs /\ Len(ExceptionTests) <= 2
  <2>1. PICK a, b : /\ a = Test("testException", 1, "user", 1)
                    /\ b = Test("testUnknownException", 1, "unknown", 1)
    OBVIOUS
  <2>2. {"testException", "testUnknownException"} \subseteq Interface
    BY DEF Interface, Exceptions
  <2>3. /\ a \in StaticTests /\ b \in StaticTests /\ a.check = "user" /\ b.check = "unknown"
    BY <2>1, <2>2 DEF Test, StaticTests, Suited, Checks
  <2>4. Len(<<a, b>>) = 2 /\ \A i \in 1 .. 2 : i = 1 \/ i = 2
    OBVIOUS
  <2>5. <<a, b>> \in Seq(StaticTests) /\ Chained(<<a, b>>) /\ UserBeforeLast(<<a, b>>)
    BY <2>3, <2>4 DEF Chained, UserBeforeLast
  <2>6. QED BY <2>1, <2>4, <2>5 DEF ExceptionTests, Programs
<1>8. QED BY <1>1, <1>2, <1>3, <1>4, <1>5, <1>6, <1>7

(* The program of all_types_client, whatever sections it is built with.    *)
LEMMA StaticProgram ==
  ASSUME NEW c \in Clients
  PROVE  all_types_test[c] \in Programs /\ Len(all_types_test[c]) <= 40
<1> DEFINE Section(macro, tests) == IF macro \in Defined[c] THEN tests ELSE <<>>
           A == Section("SIMPLE", SimpleTypes)
           B == Section("SEQUENCE", EnumAndSequences)
           C == Section("ARRAY", ArraysAndStructs)
           D == Section("UNION", Unions)
           E == Section("ATTRIBUTE", AttributeTests)
           F == Section("OBJECT", ObjectTests)
           G == Section("MONEY", Money)
           H == Section("EXCEPTION", ExceptionTests)
<1>1. all_types_test[c] = A \o B \o C \o D \o E \o F \o G \o H
  BY DEF all_types_test
<1>2. <<>> \in Sections /\ Len(<<>>) = 0
  <2>1. <<>> \in Seq(StaticTests) /\ Len(<<>>) = 0 /\ 1 .. 0 = {}
    OBVIOUS
  <2>2. \A i \in 1 .. Len(<<>>) : <<>>[i].check \notin {"green", "next", "user"}
    BY <2>1
  <2>3. QED BY <2>1, <2>2, PlainSection
<1>3. /\ A \in Sections /\ Len(A) <= 11
      /\ B \in Sections /\ Len(B) <= 3
      /\ C \in Sections /\ Len(C) <= 5
      /\ D \in Sections /\ Len(D) <= 1
      /\ E \in Sections /\ Len(E) <= 4
      /\ F \in Sections /\ Len(F) <= 12
      /\ G \in Sections /\ Len(G) <= 1
      /\ H \in Programs /\ Len(H) <= 2 /\ Sections \subseteq Programs
  BY <1>2, SectionsOK, ObjectTestsOK DEF Sections
<1> HIDE DEF A, B, C, D, E, F, G, H
<1>4. A \o B \in Sections /\ Len(A \o B) <= 14
  BY <1>3, Joined
<1>5. A \o B \o C \in Sections /\ Len(A \o B \o C) <= 19
  BY <1>3, <1>4, Joined
<1>6. A \o B \o C \o D \in Sections /\ Len(A \o B \o C \o D) <= 20
  BY <1>3, <1>5, Joined
<1>7. A \o B \o C \o D \o E \in Sections /\ Len(A \o B \o C \o D \o E) <= 24
  BY <1>3, <1>6, Joined
<1>8. /\ A \o B \o C \o D \o E \o F \in Sections
      /\ Len(A \o B \o C \o D \o E \o F) <= 36
  BY <1>3, <1>7, Joined
<1>9. /\ A \o B \o C \o D \o E \o F \o G \in Sections
      /\ Len(A \o B \o C \o D \o E \o F \o G) <= 37
  BY <1>3, <1>8, Joined
<1>10. QED BY <1>1, <1>3, <1>9, JoinedLast

(* The programs that clients run.                                          *)
LEMMA ProgramOK ==
  ASSUME NEW c \in Clients, kind[c] \in {"static", "dyn", "functions", "other"}
  PROVE  /\ Program(c) \in Seq(Tests) /\ Len(Program(c)) <= 40
         /\ kind[c] # "functions" => Program(c) \in Seq(StaticTests \cup {dyn_test[1]})
         /\ kind[c] = "functions" =>
              /\ Len(Program(c)) = 3
              /\ Program(c)[1] = Test("oneway_void_proc", 1, "oneway", 0)
              /\ Program(c)[2] = Test("oneway_checker", 1, "one", 1)
              /\ Program(c)[3] = Test("oneway_checker", 1, "two", 1)
<1>1. StaticTests \subseteq Tests
  BY DEF StaticTests, Tests, Checks, Interface, EchoOps, ByValue, ByCopy, Composite, Duplicated,
         Borrowed, NullResult, NoEffect, Attributes, Exceptions
<1>2. CASE kind[c] = "static"
  <2>1. Program(c) = all_types_test[c]
    BY <1>2 DEF Program
  <2>2. all_types_test[c] \in Seq(StaticTests)
    BY StaticProgram DEF Programs
  <2>3. all_types_test[c] \in Seq(Tests)
    BY <1>1, <2>2
  <2>4. QED BY <1>2, <2>1, <2>2, <2>3, StaticProgram
<1>3. CASE kind[c] = "dyn"
  <2>1. Program(c) = <<Test("echoULong", Repeats, "all", 1)>> /\ Repeats \in Nat \ {0}
    BY <1>3, InteropAssumption DEF Program, dyn_test
  <2>2. Test("echoULong", Repeats, "all", 1) \in Tests
    BY <2>1 DEF Test, Tests, Checks, Interface, EchoOps, ByValue
  <2>3. QED BY <1>3, <2>1, <2>2 DEF dyn_test
<1>4. CASE kind[c] = "functions"
  <2>1. Program(c) = all_functions_test
    BY <1>4 DEF Program
  <2>2. QED BY <1>4, <2>1 DEF all_functions_test, Test, Tests, Checks, Oneways
<1>5. CASE kind[c] = "other"
  BY <1>5 DEF Program
<1>6. QED BY <1>2, <1>3, <1>4, <1>5

----------------------------------------------------------------------------
(* What a client makes of a reply                                          *)

Results == {"arg", "null", "void", "num", "TRUE", "FALSE", "Green", "Blue", "my_exception",
            "UNKNOWN", "MARSHAL", "BAD_OPERATION", "none"}
Reply == [kind : {"value", "user", "system", "none"}, val : Results, num : Nat]

(* A client that has ended, or that is at a test of its program.           *)
AtTest(s, prog) ==
  s \in ClientState /\ (s.pc = "done" \/ (s.pc = "test" /\ s.step \in 1 .. Len(prog)))

(* output and end_report.                                                  *)
LEMMA ReportTyped ==
  ASSUME NEW s \in ClientState, NEW t \in Tests, t.check # "oneway", NEW pass \in BOOLEAN
  PROVE  /\ output(s, t, pass) \in ClientState
         /\ output(s, t, pass).pc = s.pc /\ output(s, t, pass).step = s.step
         /\ output(s, t, pass).left = s.left
         /\ end_report(s) \in ClientState /\ end_report(s).pc = "done"
<1>1. t.op \in Interface \cup {"oneway_checker"} /\ t.lines \in Nat
  BY DEF Tests, Oneways
<1>2. s.failed \cup {t.op} \in SUBSET (Interface \cup {"oneway_checker"})
  BY <1>1 DEF ClientState
<1>3. s.lines + t.lines \in Nat
  BY <1>1 DEF ClientState
<1>4. PICK f \in SUBSET (Interface \cup {"oneway_checker"}), n \in Nat :
        output(s, t, pass) = [s EXCEPT !.lines = n, !.failed = f]
  BY <1>2, <1>3 DEF output, ClientState
<1>5. PICK v \in {"passed", "failed"} :
        end_report(s) = [s EXCEPT !.pc = "done", !.exit = "success", !.verdict = v]
  BY DEF end_report
<1>6. output(s, t, pass) \in ClientState
  BY <1>4 DEF ClientState
<1>7. end_report(s) \in ClientState
  BY <1>5 DEF ClientState
<1>8. QED BY <1>4, <1>5, <1>6, <1>7 DEF ClientState

(* The next test.                                                          *)
LEMMA AdvanceTyped ==
  ASSUME NEW prog \in Seq(Tests), Len(prog) <= 40,
         NEW s \in ClientState, s.step \in 0 .. Len(prog), s.pc = "test"
  PROVE  AtTest(Advance(s, prog), prog)
<1>1. CASE s.step = Len(prog)
  <2>1. Advance(s, prog) = end_report(s)
    BY <1>1 DEF Advance
  <2>2. end_report(s) \in ClientState /\ end_report(s).pc = "done"
    BY DEF ClientState, end_report
  <2>3. QED BY <2>1, <2>2 DEF AtTest
<1>2. CASE s.step # Len(prog)
  <2>1. /\ Len(prog) \in Nat /\ s.step \in Nat /\ s.step < Len(prog)
        /\ s.step + 1 \in 1 .. Len(prog)
    BY <1>2
  <2>2. prog[s.step + 1].calls \in Nat
    BY <2>1 DEF Tests
  <2>3. Advance(s, prog) = [s EXCEPT !.step = s.step + 1, !.left = prog[s.step + 1].calls]
    BY <1>2 DEF Advance
  <2>4. s.step + 1 \in 0 .. 40
    <3>1. \A k, n \in Nat : k < n /\ n <= 40 => k + 1 \in 0 .. 40
      OBVIOUS
    <3>2. QED BY <2>1, <3>1
  <2>5. QED BY <2>1, <2>2, <2>3, <2>4 DEF AtTest, ClientState
<1>3. QED BY <1>1, <1>2

(* The reply to a call of test t.                                          *)
LEMMA AfterTyped ==
  ASSUME NEW prog \in Seq(Tests), Len(prog) <= 40, NEW r \in Reply,
         NEW s \in ClientState, s.step \in 1 .. Len(prog), s.pc = "test",
         NEW t \in Tests, t.check # "oneway"
  PROVE  AtTest(After(s, t, r, prog), prog)
<1> DEFINE good == Good(s, t, r)
           quiet == [t EXCEPT !.lines = 0]
<1>1. good \in BOOLEAN
  BY DEF Good
<1> HIDE DEF good
<1>2. quiet \in Tests /\ quiet.check = t.check
  BY DEF Tests
<1> HIDE DEF quiet
<1>3. \A x \in Tests : x.check # "oneway" =>
        /\ output(s, x, good) \in ClientState
        /\ output(s, x, good).pc = "test" /\ output(s, x, good).step = s.step
        /\ output(s, x, good).left = s.left
  BY <1>1, ReportTyped
<1>4. AtTest(Advance(s, prog), prog) /\ AtTest(Advance(output(s, t, good), prog), prog)
  BY <1>3, AdvanceTyped
<1>5. AtTest(end_report(output(s, t, good)), prog)
  BY <1>3, ReportTyped DEF AtTest
<1>6. s.left > 1 =>
        AtTest([output(s, quiet, good) EXCEPT !.left = s.left - 1], prog)
  <2>1. output(s, quiet, good) \in ClientState /\ output(s, quiet, good).pc = "test"
        /\ output(s, quiet, good).step = s.step
    BY <1>2, <1>3
  <2>2. s.left \in Nat
    BY DEF ClientState
  <2>3. PICK x : x = output(s, quiet, good)
    OBVIOUS
  <2>4. ASSUME s.left > 1 PROVE AtTest([x EXCEPT !.left = s.left - 1], prog)
    <3>1. s.left - 1 \in Nat
      BY <2>2, <2>4
    <3>2. QED BY <2>1, <2>3, <3>1 DEF AtTest, ClientState
  <2>5. QED BY <2>3, <2>4
<1>7. AtTest(Advance([s EXCEPT !.first = IF t.check = "first" THEN r.num ELSE @], prog), prog)
  <2> DEFINE x == [s EXCEPT !.first = IF t.check = "first" THEN r.num ELSE @]
  <2>1. x \in ClientState /\ x.pc = "test" /\ x.step = s.step
    BY DEF ClientState, Reply
  <2> HIDE DEF x
  <2>2. AtTest(Advance(x, prog), prog)
    BY <2>1, AdvanceTyped
  <2>3. QED BY <2>2 DEF x
<1>8. output(s, quiet, good).left = s.left
  BY <1>2, <1>3
<1>9. QED BY <1>4, <1>5, <1>6, <1>7, <1>8 DEF After, good, quiet

----------------------------------------------------------------------------
(* Type correctness                                                        *)

CallState ==
  [phase : {"idle", "sent", "upcall", "replied"},
   op : Interface \cup Oneways \cup {"_is_a", "none"}, reg : Nat, rep : Reply]

(* A client calls only while it runs, one operation of the test it is at,  *)
(* and all_types_server gets calls of all_types only: x is the client, y   *)
(* its call.                                                               *)
Fits(c, x, y) ==
  /\ x.pc \in {"start", "done"} => y.phase = "idle"
  /\ x.pc = "start" => x.step = 1
  /\ x.pc = "narrow" => kind[c] \in {"static", "functions"}
  /\ x.pc = "test" /\ kind[c] # "other" =>
       /\ x.step \in 1 .. Len(Program(c))
       /\ y.phase # "idle" => Program(c)[x.step].check # "oneway"
  /\ y.phase # "idle" /\ server.name = "static" => y.op \in Interface \cup {"_is_a"}

(* The references to the servant that main and the object adapter hold.    *)
RefsAgree ==
  /\ rc \in 1 .. 2
  /\ srv \in {"activated", "published"} => rc = 2
  /\ srv \in {"created", "released", "running"} => rc = 1

(* The inductive invariant behind TypeOK.                                  *)
Typed ==
  /\ TypeOK /\ RefsAgree
  /\ cl \in [Clients -> ClientState] /\ call \in [Clients -> CallState]
  /\ disturbed \in [Clients -> SUBSET {"Counter", "set_myColor"}]
  /\ \A c \in Clients : Fits(c, cl[c], call[c])

(* What the server does not change.                                        *)
LEMMA KindsOK ==
  ASSUME Typed, NEW c \in Clients
  PROVE  /\ kind[c] \in {"static", "dyn", "functions", "other"}
         /\ server.name = "static" => kind[c] \in {"static", "other"}
         /\ server.name = "functions" <=> kind[c] = "functions"
<1>1. server \in Servers /\ kind[c] \in KindsOf(server)
  BY DEF Typed, TypeOK
<1>2. server.name \in {"static", "functions", "dyn", "dyn_TAO", "mt_TAO"}
  BY <1>1 DEF Servers
<1>3. QED BY <1>1, <1>2 DEF KindsOf

(* What is to be shown of a step of the client c, or of an upcall for it.  *)
LEMMA ClientStep ==
  ASSUME Typed, NEW c \in Clients, NEW x \in ClientState, NEW y \in CallState,
         cl' = [cl EXCEPT ![c] = x], call' = [call EXCEPT ![c] = y],
         UNCHANGED <<server, kind, srv, rc>>,
         tmp' \in Nat, Oneway_Value' \in 0 .. 2, tmpColor' \in {"Green", "Blue"},
         oneway' \in [Clients -> {"none", "queued", "delay", "done"}],
         disturbed' \in [Clients -> SUBSET {"Counter", "set_myColor"}],
         Fits(c, x, y)
  PROVE  Typed'
<1> USE DEF Typed
<1>1. cl' \in [Clients -> ClientState] /\ call' \in [Clients -> CallState]
  OBVIOUS
<1>2. \A d \in Clients : d # c => cl'[d] = cl[d] /\ call'[d] = call[d]
  OBVIOUS
<1>3. cl'[c] = x /\ call'[c] = y
  OBVIOUS
<1>4. \A d \in Clients : Program(d)' = Program(d)
  BY DEF Program
<1>5. ASSUME NEW d \in Clients PROVE Fits(d, cl[d], call[d])'
  <2>1. CASE d = c
    BY <1>3, <1>4, <2>1 DEF Fits
  <2>2. CASE d # c
    BY <1>2, <1>4, <2>2 DEF Fits
  <2>3. QED BY <2>1, <2>2
<1>6. RefsAgree'
  BY DEF RefsAgree
<1>7. TypeOK'
  BY <1>1 DEF TypeOK, CallState
<1>8. QED BY <1>1, <1>5, <1>6, <1>7

(* Main does not touch calls and clients.                                  *)
LEMMA MainTyped ==
  ASSUME Typed, Main
  PROVE  Typed'
<1> USE DEF Typed
<1>1. RefsAgree' /\ srv' \in {"created", "activated", "published", "released", "running", "dead"}
  BY DEF Main, Activate_Object, Print_IOR, Remove_Ref, Run, Fatal, RefsAgree, TypeOK
<1>2. UNCHANGED unchangedByServer
  BY DEF Main, Activate_Object, Print_IOR, Remove_Ref, Run, Fatal
<1>3. \A c \in Clients : Fits(c, cl[c], call[c])'
  BY <1>2 DEF Fits, unchangedByServer, Program
<1>4. TypeOK'
  BY <1>1, <1>2 DEF TypeOK, unchangedByServer, RefsAgree
<1>5. QED BY <1>1, <1>2, <1>3, <1>4 DEF unchangedByServer

(* What the servants answer.                                               *)
LEMMA RepliesTyped ==
  /\ \A v \in Results : Value(v) \in Reply /\ System(v) \in Reply
  /\ \A n \in Nat : Number(n) \in Reply /\ User(n) \in Reply
<1>1. \A v \in Results : Value(v) \in Reply /\ System(v) \in Reply
  BY DEF Reply, Value, System
<1>2. \A n \in Nat : Number(n) \in Reply /\ User(n) \in Reply
  BY DEF Reply, Number, User, Results
<1>3. QED BY <1>1, <1>2

LEMMA UpcallTyped ==
  ASSUME Typed, NEW c \in Clients, call[c].phase = "upcall"
  PROVE  Upcall(c, call[c].op) \in Reply
<1>1. server.name \in {"static", "functions", "dyn", "dyn_TAO", "mt_TAO"}
  BY DEF Typed, TypeOK, Servers
<1>2. CASE server.name = "static"
  <2>1. call[c].op \in Interface \cup {"_is_a"}
    BY <1>2 DEF Typed, Fits
  <2>2. tmpColor \in Results
    BY DEF Typed, TypeOK, Results
  <2>3. call[c].reg + 1 \in Nat
    BY DEF Typed, CallState
  <2>4. \A op \in Interface \cup {"_is_a"}, n \in Nat : all_types_i(op, tmpColor, n) \in Reply
    <3> SUFFICES ASSUME NEW op \in Interface \cup {"_is_a"}, NEW n \in Nat
                 PROVE  all_types_i(op, tmpColor, n) \in Reply
      OBVIOUS
    <3>1. /\ Value("TRUE") \in Reply /\ Value("arg") \in Reply /\ Value("null") \in Reply
          /\ Value("void") \in Reply /\ Value(tmpColor) \in Reply /\ Number(n) \in Reply
          /\ User(42) \in Reply /\ System("UNKNOWN") \in Reply
      BY <2>2, RepliesTyped DEF Results
    <3>2. \/ op = "_is_a" \/ op \in EchoOps \/ op \in NullResult \/ op \in NoEffect
          \/ op \in {"get_myColor", "set_myColor", "Counter", "testException",
                     "testUnknownException"}
      BY DEF Interface, Attributes, Exceptions
    <3>3. QED
      BY <3>1, <3>2 DEF all_types_i, testException, SentInfo, testUnknownException
  <2>5. QED BY <1>2, <2>1, <2>3, <2>4 DEF Upcall
<1>3. CASE server.name = "functions"
  <2>1. Oneway_Value \in Nat
    BY DEF Typed, TypeOK
  <2>2. Value("TRUE") \in Reply /\ Number(Oneway_Value) \in Reply
    BY <2>1, RepliesTyped DEF Results
  <2>3. QED BY <1>3, <2>2 DEF Upcall
<1>4. ASSUME NEW orb \in {"other", "TAO"}, NEW op
      PROVE  invoke(op, "IDL:all_types:1.0", orb) \in Reply
  <2>1. /\ Value("TRUE") \in Reply /\ Value("FALSE") \in Reply /\ Value("arg") \in Reply
        /\ Value("void") \in Reply /\ System("MARSHAL") \in Reply /\ System("BAD_OPERATION") \in Reply
    BY RepliesTyped DEF Results
  <2>2. QED BY <2>1 DEF invoke, Caught
<1>5. QED BY <1>1, <1>2, <1>3, <1>4 DEF Upcall, invoke_mt

(* The upcalls.                                                            *)
LEMMA ServeTyped ==
  ASSUME Typed, NEW c \in Clients, Serve(c)
  PROVE  Typed'
<1>1. /\ cl[c] \in ClientState /\ call[c] \in CallState /\ Fits(c, cl[c], call[c])
      /\ oneway \in [Clients -> {"none", "queued", "delay", "done"}]
      /\ disturbed \in [Clients -> SUBSET {"Counter", "set_myColor"}]
      /\ tmp \in Nat /\ Oneway_Value \in 0 .. 2 /\ tmpColor \in {"Green", "Blue"}
      /\ cl = [cl EXCEPT ![c] = cl[c]] /\ call = [call EXCEPT ![c] = call[c]]
  BY DEF Typed, TypeOK
<1>2. CASE Dispatch(c)
  <2>1. PICK y : y = [call[c] EXCEPT !.phase = "upcall", !.reg = tmp]
    OBVIOUS
  <2>2. /\ call[c].phase = "sent" /\ call' = [call EXCEPT ![c] = y]
        /\ UNCHANGED <<server, kind, srv, servant, oneway, cl, disturbed>>
    BY <1>1, <1>2, <2>1 DEF Dispatch
  <2>3. y \in CallState /\ y.op = call[c].op /\ y.phase = "upcall"
    BY <1>1, <2>1 DEF CallState
  <2>4. cl[c].pc \notin {"start", "done"}
    BY <1>1, <2>2 DEF Fits
  <2>5. Fits(c, cl[c], y)
    BY <1>1, <2>2, <2>3, <2>4 DEF Fits
  <2>6. QED BY <1>1, <2>2, <2>3, <2>5, ClientStep DEF servant
<1>3. CASE Complete(c)
  <2>1. PICK y : y = [call[c] EXCEPT !.phase = "replied", !.reg = 0,
                                     !.rep = Upcall(c, call[c].op)]
    OBVIOUS
  <2>2. /\ call[c].phase = "upcall" /\ call' = [call EXCEPT ![c] = y]
        /\ UNCHANGED <<server, kind, srv, rc, Oneway_Value, oneway, cl>>
    BY <1>1, <1>3, <2>1 DEF Complete
  <2>3. Upcall(c, call[c].op) \in Reply
    BY <2>2, UpcallTyped
  <2>4. y \in CallState /\ y.op = call[c].op /\ y.phase = "replied"
    BY <1>1, <2>1, <2>3 DEF CallState
  <2>5. cl[c].pc \notin {"start", "done"}
    BY <1>1, <2>2 DEF Fits
  <2>6. tmp' \in Nat
    BY <1>1, <1>3 DEF Complete, Counter, CallState
  <2>7. tmpColor' \in {"Green", "Blue"}
    BY <1>1, <1>3 DEF Complete, SetMyColor
  <2>8. disturbed' \in [Clients -> SUBSET {"Counter", "set_myColor"}]
    <3>1. PICK op : op = call[c].op
      OBVIOUS
    <3>2. disturbed' = [d \in Clients |->
                     IF /\ d # c /\ cl[d].pc = "test" /\ kind[d] = "static"
                        /\ op \in {"Counter", "set_myColor"}
                     THEN disturbed[d] \cup {op} ELSE disturbed[d]]
      BY <1>3, <3>1 DEF Complete
    <3>3. QED BY <1>1, <3>2
  <2>9. Fits(c, cl[c], y)
    BY <1>1, <2>2, <2>4, <2>5 DEF Fits
  <2>10. QED BY <1>1, <2>2, <2>4, <2>6, <2>7, <2>8, <2>9, ClientStep
<1>4. CASE Oneway_Begin(c) \/ Oneway_End(c)
  <2>1. /\ UNCHANGED <<server, kind, srv, rc, tmp, tmpColor, call, cl, disturbed>>
        /\ Oneway_Value' \in 0 .. 2
        /\ oneway' \in [Clients -> {"none", "queued", "delay", "done"}]
    BY <1>1, <1>4 DEF Oneway_Begin, Oneway_End
  <2>2. QED BY <1>1, <2>1, ClientStep
<1>5. QED BY <1>2, <1>3, <1>4 DEF Serve

(* The calls of a client.                                                  *)
LEMMA SendTyped ==
  ASSUME Typed, NEW c \in Clients, Start(c) \/ Send(c) \/ Send_Other(c)
  PROVE  Typed'
<1>1. /\ cl[c] \in ClientState /\ call[c] \in CallState /\ Fits(c, cl[c], call[c])
      /\ oneway \in [Clients -> {"none", "queued", "delay", "done"}]
      /\ disturbed \in [Clients -> SUBSET {"Counter", "set_myColor"}]
      /\ tmp \in Nat /\ Oneway_Value \in 0 .. 2 /\ tmpColor \in {"Green", "Blue"}
      /\ cl = [cl EXCEPT ![c] = cl[c]] /\ call = [call EXCEPT ![c] = call[c]]
  BY DEF Typed, TypeOK
<1>2. \A op \in Interface \cup Oneways \cup {"_is_a"} :
        /\ Request(op) \in CallState /\ Request(op).phase = "sent" /\ Request(op).op = op
  BY DEF Request, Idle, NoReply, CallState, Reply, Results
<1>3. CASE Start(c)
  <2>1. /\ cl[c].pc = "start" /\ call[c].phase = "idle"
        /\ UNCHANGED <<server, kind, srv, rc, tmp, tmpColor, Oneway_Value, oneway, disturbed>>
    BY <1>1, <1>3 DEF Start, Fits, unchangedByClient, servant
  <2>2. ASSUME NEW code \in {"abort", "failure"}, UNCHANGED call,
               cl' = [cl EXCEPT ![c].pc = "done", ![c].exit = code]
        PROVE  Typed'
    <3>1. PICK x : x = [cl[c] EXCEPT !.pc = "done", !.exit = code]
      OBVIOUS
    <3>2. x \in ClientState /\ x.pc = "done"
      BY <1>1, <3>1 DEF ClientState
    <3>3. cl' = [cl EXCEPT ![c] = x]
      BY <1>1, <2>2, <3>1
    <3>4. call' = [call EXCEPT ![c] = call[c]]
      BY <1>1, <2>2
    <3>5. Fits(c, x, call[c])
      BY <2>1, <3>2 DEF Fits
    <3>6. QED BY <1>1, <2>1, <3>2, <3>3, <3>4, <3>5, ClientStep
  <2>3. CASE /\ kind[c] \in {"static", "functions"}
             /\ cl' = [cl EXCEPT ![c].pc = "narrow"]
             /\ call' = [call EXCEPT ![c] = Request("_is_a")]
    <3>1. PICK x : x = [cl[c] EXCEPT !.pc = "narrow"]
      OBVIOUS
    <3>2. x \in ClientState /\ x.pc = "narrow"
      BY <1>1, <3>1 DEF ClientState
    <3>3. cl' = [cl EXCEPT ![c] = x]
      BY <1>1, <2>3, <3>1
    <3>4. PICK y \in CallState : /\ y.op = "_is_a" /\ y.phase = "sent"
                                /\ call' = [call EXCEPT ![c] = y]
      BY <1>2, <2>3
    <3>5. Fits(c, x, y)
      BY <2>3, <3>2, <3>4 DEF Fits
    <3>6. QED BY <1>1, <2>1, <3>2, <3>3, <3>4, <3>5, ClientStep
  <2>4. CASE /\ kind[c] \in {"dyn", "other"}
             /\ cl' = [cl EXCEPT ![c].pc = "test",
                                 ![c].left = IF kind[c] = "dyn" THEN Repeats
                                                                ELSE OtherCalls]
             /\ UNCHANGED call
    <3>1. Repeats \in Nat /\ OtherCalls \in Nat
      BY InteropAssumption
    <3>2. PICK n \in Nat : n = IF kind[c] = "dyn" THEN Repeats ELSE OtherCalls
      BY <3>1
    <3>3. PICK x : x = [cl[c] EXCEPT !.pc = "test", !.left = n]
      OBVIOUS
    <3>4. x \in ClientState /\ x.pc = "test" /\ x.step = cl[c].step
      BY <1>1, <3>3 DEF ClientState
    <3>5. cl' = [cl EXCEPT ![c] = x]
      BY <1>1, <2>4, <3>2, <3>3
    <3>6. kind[c] = "dyn" => Len(Program(c)) = 1
      BY DEF Program, dyn_test
    <3>7. cl[c].step = 1
      BY <1>1, <2>1 DEF Fits
    <3>8. call' = [call EXCEPT ![c] = call[c]]
      BY <1>1, <2>4
    <3>9. Fits(c, x, call[c])
      <4>1. x.pc = "test" /\ call[c].phase = "idle" /\ x.step = 1
        BY <2>1, <3>4, <3>7
      <4>2. kind[c] # "other" => 1 \in 1 .. Len(Program(c))
        BY <2>4, <3>6
      <4>3. QED BY <4>1, <4>2 DEF Fits
    <3>10. QED BY <1>1, <2>1, <3>4, <3>5, <3>8, <3>9, ClientStep
  <2>5. QED BY <1>3, <2>2, <2>3, <2>4 DEF Start
<1>4. CASE Send(c)
  <2>1. PICK t : t = Program(c)[cl[c].step]
    OBVIOUS
  <2>2. /\ cl[c].pc = "test" /\ kind[c] # "other" /\ call[c].phase = "idle"
        /\ UNCHANGED <<server, kind, srv, rc, tmp, tmpColor, Oneway_Value>>
        /\ disturbed' = IF t.op = "set_myColor" \/ t.check = "first"
                        THEN [disturbed EXCEPT ![c] = {}] ELSE disturbed
    BY <1>4, <2>1 DEF Send, unchangedByClient, servant
  <2>3. disturbed' \in [Clients -> SUBSET {"Counter", "set_myColor"}]
    BY <1>1, <2>2
  <2>4. cl[c].step \in 1 .. Len(Program(c))
    BY <1>1, <2>2 DEF Fits
  <2>5. kind[c] \in {"static", "dyn", "functions", "other"}
    BY KindsOK
  <2>6. /\ Program(c) \in Seq(Tests) /\ Len(Program(c)) <= 40
        /\ kind[c] # "functions" => Program(c) \in Seq(StaticTests \cup {dyn_test[1]})
        /\ kind[c] = "functions" =>
              /\ Len(Program(c)) = 3
              /\ Program(c)[1].check = "oneway"
              /\ Program(c)[2].check = "one" /\ Program(c)[3].check = "two"
    BY <2>5, ProgramOK DEF Test
  <2>7. t \in Tests
    BY <2>1, <2>4, <2>6
  <2>8. CASE t.check = "oneway"
    <3>1. /\ oneway' = [oneway EXCEPT ![c] = "queued"] /\ UNCHANGED call
          /\ cl' = [cl EXCEPT ![c].step = @ + 1, ![c].left = 1]
      BY <1>4, <2>1, <2>8 DEF Send
    <3>2. kind[c] = "functions" /\ cl[c].step = 1
      <4>1. dyn_test[1].check = "all"
        BY DEF dyn_test, Test
      <4>2. \A u \in StaticTests \cup {dyn_test[1]} : u.check # "oneway"
        BY <4>1 DEF StaticTests
      <4>3. kind[c] = "functions"
        BY <2>1, <2>4, <2>6, <2>8, <4>2
      <4>4. cl[c].step \in {1, 2, 3}
        <5>1. cl[c].step \in 1 .. 3
          BY <2>4, <2>6, <4>3
        <5>2. QED BY <5>1
      <4>5. QED BY <2>1, <2>6, <2>8, <4>3, <4>4
    <3>3. PICK x : x = [cl[c] EXCEPT !.step = 2, !.left = 1]
      OBVIOUS
    <3>4. x \in ClientState /\ x.pc = "test" /\ x.step = 2
      <4>1. 2 \in 0 .. 40 /\ 1 \in Nat
        OBVIOUS
      <4>2. PICK k, n : k = 2 /\ n = 1
        OBVIOUS
      <4>3. x = [cl[c] EXCEPT !.step = k, !.left = n] /\ k \in 0 .. 40 /\ n \in Nat
        BY <3>3, <4>1, <4>2
      <4>4. x \in ClientState /\ x.pc = "test" /\ x.step = k
        BY <1>1, <2>2, <4>3 DEF ClientState
      <4>5. QED BY <4>2, <4>4
    <3>5. cl' = [cl EXCEPT ![c] = x]
      <4>1. cl' = [cl EXCEPT ![c] = [cl[c] EXCEPT !.step = cl[c].step + 1, !.left = 1]]
        BY <1>1, <3>1
      <4>2. cl[c].step + 1 = 2
        BY <3>2
      <4>3. QED BY <3>3, <4>1, <4>2
    <3>6. oneway' \in [Clients -> {"none", "queued", "delay", "done"}]
      BY <1>1, <3>1
    <3>7. call' = [call EXCEPT ![c] = call[c]]
      BY <1>1, <3>1
    <3>8. Fits(c, x, call[c])
      BY <2>2, <2>6, <3>2, <3>4 DEF Fits
    <3>9. QED BY <1>1, <2>2, <2>3, <3>4, <3>5, <3>6, <3>7, <3>8, ClientStep
  <2>9. CASE t.check # "oneway"
    <3>1. /\ call' = [call EXCEPT ![c] = Request(t.op)] /\ UNCHANGED <<oneway, cl>>
      BY <1>4, <2>1, <2>9 DEF Send
    <3>2. t.op \in Interface \cup Oneways
      BY <2>7 DEF Tests
    <3>3. PICK y \in CallState : /\ y.op = t.op /\ y.phase = "sent"
                                /\ call' = [call EXCEPT ![c] = y]
      BY <1>2, <3>1, <3>2
    <3>4. server.name = "static" => t.op \in Interface
      <4>1. server.name = "static" => kind[c] = "static"
        BY <2>2, KindsOK
      <4>2. kind[c] = "static" => t \in StaticTests
        <5>1. kind[c] = "static" => Program(c) = all_types_test[c]
          BY DEF Program
        <5>2. QED BY <2>1, <2>4, <5>1, StaticProgram DEF Programs
      <4>3. QED BY <4>1, <4>2 DEF StaticTests
    <3>5. Fits(c, cl[c], y)
      BY <2>1, <2>2, <2>4, <2>9, <3>3, <3>4 DEF Fits
    <3>6. cl' = [cl EXCEPT ![c] = cl[c]]
      BY <1>1, <3>1
    <3>7. oneway' = oneway
      BY <3>1
    <3>8. QED BY <1>1, <2>2, <2>3, <3>3, <3>5, <3>6, <3>7, ClientStep
  <2>10. QED BY <2>8, <2>9
<1>5. CASE Send_Other(c)
  <2>1. /\ cl[c].pc = "test" /\ kind[c] = "other"
        /\ UNCHANGED <<server, kind, srv, rc, tmp, tmpColor, Oneway_Value, oneway, disturbed>>
    BY <1>5 DEF Send_Other, unchangedByClient, servant
  <2>2. ASSUME NEW op \in Interface, cl[c].left > 0,
               call' = [call EXCEPT ![c] = Request(op)],
               cl' = [cl EXCEPT ![c].left = @ - 1]
        PROVE  Typed'
    <3>1. cl[c].left - 1 \in Nat
      BY <1>1, <2>2 DEF ClientState
    <3>2. PICK x : x = [cl[c] EXCEPT !.left = cl[c].left - 1]
      OBVIOUS
    <3>3. x \in ClientState /\ x.pc = "test"
      BY <1>1, <2>1, <3>1, <3>2 DEF ClientState
    <3>4. cl' = [cl EXCEPT ![c] = x]
      BY <1>1, <2>2, <3>2
    <3>5. PICK y \in CallState : /\ y.op = op /\ y.phase = "sent"
                                /\ call' = [call EXCEPT ![c] = y]
      BY <1>2, <2>2
    <3>6. Fits(c, x, y)
      BY <2>1, <3>3, <3>5 DEF Fits
    <3>7. QED BY <1>1, <2>1, <3>3, <3>4, <3>5, <3>6, ClientStep
  <2>3. CASE /\ cl' = [cl EXCEPT ![c].pc = "done", ![c].exit = "success"]
             /\ UNCHANGED call
    <3>1. PICK x : x = [cl[c] EXCEPT !.pc = "done", !.exit = "success"]
      OBVIOUS
    <3>2. x \in ClientState /\ x.pc = "done"
      BY <1>1, <3>1 DEF ClientState
    <3>3. cl' = [cl EXCEPT ![c] = x]
      BY <1>1, <2>3, <3>1
    <3>4. call[c].phase = "idle"
      BY <1>5 DEF Send_Other
    <3>5. call' = [call EXCEPT ![c] = call[c]]
      BY <1>1, <2>3
    <3>6. Fits(c, x, call[c])
      BY <3>2, <3>4 DEF Fits
    <3>7. QED BY <1>1, <2>1, <3>2, <3>3, <3>5, <3>6, ClientStep
  <2>4. QED BY <1>5, <2>2, <2>3 DEF Send_Other
<1>6. QED BY <1>3, <1>4, <1>5

(* The ends of a program that no test reports.                             *)
LEMMA UncaughtTyped ==
  ASSUME Typed, NEW c \in Clients
  PROVE  Uncaught(c) \in ClientState /\ Uncaught(c).pc = "done"
<1>1. cl[c] \in ClientState
  BY DEF Typed
<1>2. PICK e \in {"success", "abort"} :
        Uncaught(c) = [cl[c] EXCEPT !.pc = "done", !.exit = e]
  BY DEF Uncaught
<1>3. QED BY <1>1, <1>2 DEF ClientState

(* The start of the tests.                                                 *)
LEMMA NarrowedTyped ==
  ASSUME Typed, NEW c \in Clients, NEW r \in Reply
  PROVE  AtTest(Narrowed(c, r), Program(c))
<1>1. cl[c] \in ClientState
  BY DEF Typed
<1>2. CASE r.val = "TRUE"
  <2>1. PICK n \in {0, 1} : n = IF kind[c] = "static" THEN 1 ELSE 0
    OBVIOUS
  <2>2. PICK x : x = [cl[c] EXCEPT !.pc = "test", !.step = 0, !.lines = n]
    OBVIOUS
  <2>3. x \in ClientState /\ x.pc = "test" /\ x.step = 0
    <3>1. PICK k : k = 0
      OBVIOUS
    <3>2. k \in 0 .. 40 /\ n \in Nat
      BY <2>1, <3>1
    <3>3. x = [cl[c] EXCEPT !.pc = "test", !.step = k, !.lines = n]
      BY <2>2, <3>1
    <3>4. x \in ClientState /\ x.pc = "test" /\ x.step = k
      BY <1>1, <3>2, <3>3 DEF ClientState
    <3>5. QED BY <3>1, <3>4
  <2>4. Narrowed(c, r) = Advance(x, Program(c))
    BY <1>2, <2>1, <2>2 DEF Narrowed
  <2>5. Program(c) \in Seq(Tests) /\ Len(Program(c)) <= 40
    BY KindsOK, ProgramOK
  <2>6. 0 \in 0 .. Len(Program(c))
    BY <2>5
  <2>7. QED BY <2>3, <2>4, <2>5, <2>6, AdvanceTyped
<1>3. CASE r.val # "TRUE"
  <2>1. Narrowed(c, r) = [cl[c] EXCEPT !.pc = "done", !.exit = "failure"]
    BY <1>3 DEF Narrowed
  <2>2. QED BY <1>1, <2>1 DEF AtTest, ClientState
<1>4. QED BY <1>2, <1>3

(* The replies, and the connections that break.                            *)
LEMMA ReceiveTyped ==
  ASSUME Typed, NEW c \in Clients, Receive(c) \/ Break(c)
  PROVE  Typed'
<1>1. /\ cl[c] \in ClientState /\ call[c] \in CallState /\ Fits(c, cl[c], call[c])
      /\ oneway \in [Clients -> {"none", "queued", "delay", "done"}]
      /\ disturbed \in [Clients -> SUBSET {"Counter", "set_myColor"}]
      /\ tmp \in Nat /\ Oneway_Value \in 0 .. 2 /\ tmpColor \in {"Green", "Blue"}
  BY DEF Typed, TypeOK
<1>2. /\ call[c].phase # "idle" /\ call' = [call EXCEPT ![c] = Idle]
      /\ UNCHANGED <<server, kind, srv, rc, tmp, tmpColor, Oneway_Value, oneway, disturbed>>
  BY DEF Receive, Break, unchangedByClient, servant
<1>3. Idle \in CallState /\ Idle.phase = "idle"
  BY DEF Idle, NoReply, CallState, Reply, Results
<1>4. ASSUME NEW x, AtTest(x, Program(c)) \/ x = cl[c], cl' = [cl EXCEPT ![c] = x]
      PROVE  Typed'
  <2>1. x \in ClientState
    BY <1>1, <1>4 DEF AtTest
  <2>2. Fits(c, x, Idle)
    <3>1. CASE AtTest(x, Program(c))
      BY <1>3, <3>1 DEF AtTest, Fits
    <3>2. CASE x = cl[c]
      BY <1>1, <1>3, <3>2 DEF Fits
    <3>3. QED BY <1>4, <3>1, <3>2
  <2>3. QED BY <1>1, <1>2, <1>3, <1>4, <2>1, <2>2, ClientStep
<1>5. AtTest(Uncaught(c), Program(c))
  BY UncaughtTyped DEF AtTest
<1>6. CASE Break(c)
  BY <1>4, <1>5, <1>6 DEF Break
<1>7. CASE Receive(c)
  <2>1. PICK r, t : r = call[c].rep /\ t = Program(c)[cl[c].step]
    OBVIOUS
  <2>2. cl' = [cl EXCEPT ![c] =
              CASE kind[c] = "other"  -> cl[c]
                [] cl[c].pc = "narrow" ->
                     IF r.kind = "value" THEN Narrowed(c, r) ELSE Uncaught(c)
                [] OTHER -> IF Caught_By(t, r) THEN After(cl[c], t, r, Program(c))
                                               ELSE Uncaught(c)]
    BY <1>7, <2>1 DEF Receive
  <2>3. r \in Reply
    BY <1>1, <2>1 DEF CallState
  <2>4. AtTest(Narrowed(c, r), Program(c))
    BY <2>3, NarrowedTyped
  <2>5. ASSUME kind[c] # "other", cl[c].pc # "narrow"
        PROVE  AtTest(After(cl[c], t, r, Program(c)), Program(c))
    <3>1. cl[c].pc = "test"
      BY <1>1, <1>2, <2>5 DEF Fits, ClientState
    <3>2. cl[c].step \in 1 .. Len(Program(c)) /\ t.check # "oneway"
      BY <1>1, <1>2, <2>1, <2>5, <3>1 DEF Fits
    <3>3. Program(c) \in Seq(Tests) /\ Len(Program(c)) <= 40
      BY KindsOK, ProgramOK
    <3>4. t \in Tests
      BY <2>1, <3>2, <3>3
    <3>5. QED BY <1>1, <2>3, <3>1, <3>2, <3>3, <3>4, AfterTyped
  <2>6. PICK x : x =
              CASE kind[c] = "other"  -> cl[c]
                [] cl[c].pc = "narrow" ->
                     IF r.kind = "value" THEN Narrowed(c, r) ELSE Uncaught(c)
                [] OTHER -> IF Caught_By(t, r) THEN After(cl[c], t, r, Program(c))
                                               ELSE Uncaught(c)
    OBVIOUS
  <2>7. AtTest(x, Program(c)) \/ x = cl[c]
    <3>1. CASE kind[c] = "other" /\ cl[c].pc # "narrow"
      BY <2>6, <3>1
    <3>2. CASE cl[c].pc = "narrow"
      <4>1. kind[c] # "other"
        BY <1>1, <3>2 DEF Fits
      <4>2. QED BY <1>5, <2>4, <2>6, <3>2, <4>1
    <3>3. CASE kind[c] # "other" /\ cl[c].pc # "narrow"
      BY <1>5, <2>5, <2>6, <3>3
    <3>4. QED BY <3>1, <3>2, <3>3
  <2>8. cl' = [cl EXCEPT ![c] = x]
    BY <2>2, <2>6
  <2>9. QED BY <1>4, <2>7, <2>8
<1>8. QED BY <1>6, <1>7

(* Initially nothing has been called.                                      *)
LEMMA InitTyped == Init => Typed
<1> SUFFICES ASSUME Init PROVE Typed
  OBVIOUS
<1>1. Idle \in CallState /\ Idle.phase = "idle"
  BY DEF Idle, NoReply, CallState, Reply, Results
<1>2. Fresh \in ClientState /\ Fresh.pc = "start" /\ Fresh.step = 1
  BY DEF Fresh, ClientState
<1>3. cl \in [Clients -> ClientState] /\ call \in [Clients -> CallState]
  BY <1>1, <1>2 DEF Init
<1>4. disturbed \in [Clients -> SUBSET {"Counter", "set_myColor"}]
  BY DEF Init
<1>5. \A c \in Clients : Fits(c, cl[c], call[c])
  BY <1>1, <1>2 DEF Init, Fits
<1>6. RefsAgree
  BY DEF Init, RefsAgree
<1>7. TypeOK
  BY <1>3, <1>4 DEF Init, TypeOK, CallState
<1>8. QED BY <1>3, <1>4, <1>5, <1>6, <1>7 DEF Typed

LEMMA NextTyped ==
  ASSUME Typed, [Next]_vars
  PROVE  Typed'
<1>1. CASE UNCHANGED vars
  BY <1>1 DEF vars, servant, Typed, TypeOK, RefsAgree, Fits, Program, CallState
<1>2. CASE Main
  BY <1>2, MainTyped
<1>3. CASE Ended
  BY <1>1, <1>3 DEF Ended
<1>4. ASSUME NEW c \in Clients, Serve(c) \/ Start(c) \/ Step(c) \/ Break(c)
      PROVE  Typed'
  BY <1>4, ServeTyped, SendTyped, ReceiveTyped DEF Step
<1>5. QED BY <1>1, <1>2, <1>3, <1>4 DEF Next

LEMMA TypedInv == Spec => []Typed
<1>1. Typed /\ [Next]_vars => Typed'
  BY NextTyped
<1>2. QED BY <1>1, InitTyped, PTL DEF Spec

(* Every variable keeps its type, whatever sections the clients are built  *)
(* with and however many calls they make: a client at a test is at a test  *)
(* of its program, and every server answers every call it can get.         *)
THEOREM TypeCorrect == Spec => []TypeOK
<1>1. Typed => TypeOK
  BY DEF Typed
<1>2. QED BY <1>1, TypedInv, PTL

(* An upcall runs on a servant that is referred to: from the count that    *)
(* goes with each step of main, also when main has ended.                  *)
THEOREM ServedAliveCorrect == Spec => []ServedAlive
<1>1. Typed => ServedAlive
  BY DEF Typed, RefsAgree, ServedAlive
<1>2. QED BY <1>1, TypedInv, PTL

----------------------------------------------------------------------------
(* One thread                                                              *)

(* On one thread an upcall has the server for itself: nobody else stores   *)
(* the counter between its two accesses, and no oneway call is in its      *)
(* delay.                                                                  *)
OneAtATime ==
  server.threads = 1 =>
    \A c \in Clients : call[c].phase = "upcall" =>
      /\ call[c].reg = tmp
      /\ \A d \in Clients : /\ oneway[d] # "delay"
                            /\ call[d].phase = "upcall" => d = c

LEMMA NobodyBusy ==
  ASSUME Typed, CanDispatch, server.threads = 1, NEW d \in Clients
  PROVE  call[d].phase # "upcall" /\ oneway[d] # "delay"
<1> DEFINE A == {c \in Clients : call[c].phase = "upcall"}
           B == {c \in Clients : oneway[c] = "delay"}
<1>1. IsFiniteSet(A) /\ IsFiniteSet(B)
  BY InteropAssumption, FS_Subset
<1>2. Cardinality(A) \in Nat /\ Cardinality(B) \in Nat
  BY <1>1, FS_CardinalityType
<1>3. Cardinality(A) + Cardinality(B) < 1
  BY DEF CanDispatch, Busy
<1>4. Cardinality(A) = 0 /\ Cardinality(B) = 0
  BY <1>2, <1>3
<1>5. A = {} /\ B = {}
  BY <1>1, <1>4, FS_EmptySet
<1>6. QED BY <1>5

(* What a client changes: its call, which it makes or forgets, and its     *)
(* oneway call, which it makes in the first test of all_functions_client.  *)
LEMMA ClientEffect ==
  ASSUME Typed, NEW c \in Clients, Start(c) \/ Step(c) \/ Break(c)
  PROVE  /\ UNCHANGED <<server, kind, srv, tmp, Oneway_Value>>
         /\ \A d \in Clients : d # c => /\ call'[d] = call[d] /\ cl'[d] = cl[d]
                                        /\ oneway'[d] = oneway[d]
         /\ call'[c] = call[c] \/ call'[c].phase \in {"idle", "sent"}
         /\ oneway'[c] = oneway[c] \/ (Send(c) /\ oneway'[c] = "queued")
<1>1. /\ call \in [Clients -> CallState] /\ cl \in [Clients -> ClientState]
      /\ oneway \in [Clients -> {"none", "queued", "delay", "done"}]
  BY DEF Typed, TypeOK
<1>2. \A op : Request(op).phase = "sent" /\ Idle.phase = "idle"
  BY DEF Request, Idle
<1>3. CASE Start(c)
  BY <1>1, <1>2, <1>3 DEF Start, unchangedByClient, servant
<1>4. CASE Send(c)
  BY <1>1, <1>2, <1>4 DEF Send, unchangedByClient, servant
<1>5. CASE Send_Other(c)
  BY <1>1, <1>2, <1>5 DEF Send_Other, unchangedByClient, servant
<1>6. CASE Receive(c) \/ Break(c)
  <2>1. /\ UNCHANGED <<unchangedByClient, oneway>> /\ call' = [call EXCEPT ![c] = Idle]
        /\ \E x : cl' = [cl EXCEPT ![c] = x]
    BY <1>6 DEF Receive, Break
  <2>2. QED BY <1>1, <1>2, <2>1 DEF unchangedByClient, servant
<1>7. QED BY <1>3, <1>4, <1>5, <1>6 DEF Step

LEMMA OneAtATimeStep ==
  ASSUME Typed, OneAtATime, [Next]_vars
  PROVE  OneAtATime'
<1> SUFFICES ASSUME server.threads = 1 PROVE OneAtATime'
  <2>1. server' = server
    BY DEF Next, vars, Main, Activate_Object, Print_IOR, Remove_Ref, Run, Fatal,
           unchangedByServer, Ended, Serve, Dispatch, Complete, Oneway_Begin, Oneway_End, Start,
           Step, Send, Send_Other, Receive, Break, unchangedByClient
  <2>2. QED BY <2>1 DEF OneAtATime
<1>0. /\ call \in [Clients -> CallState]
      /\ oneway \in [Clients -> {"none", "queued", "delay", "done"}]
  BY DEF Typed, TypeOK
<1>1. ASSUME UNCHANGED <<server, tmp, call, oneway>> PROVE OneAtATime'
  BY <1>1 DEF OneAtATime
<1>2. CASE UNCHANGED vars \/ Main \/ Ended
  BY <1>1, <1>2 DEF vars, servant, Main, Activate_Object, Print_IOR, Remove_Ref, Run, Fatal,
                    unchangedByServer, Ended
<1>3. ASSUME NEW c \in Clients, Start(c) \/ Step(c) \/ Break(c) PROVE OneAtATime'
  BY <1>3, ClientEffect DEF OneAtATime
<1>4. ASSUME NEW c \in Clients, Dispatch(c) PROVE OneAtATime'
  <2>1. \A d \in Clients : call[d].phase # "upcall" /\ oneway[d] # "delay"
    BY <1>4, NobodyBusy DEF Dispatch
  <2>2. /\ \A d \in Clients : d # c => call'[d] = call[d]
        /\ call'[c].reg = tmp /\ UNCHANGED <<tmp, oneway>>
    BY <1>0, <1>4 DEF Dispatch, servant, CallState
  <2>3. QED BY <2>1, <2>2 DEF OneAtATime
<1>5. ASSUME NEW c \in Clients, Complete(c) PROVE OneAtATime'
  <2>1. /\ \A d \in Clients : d # c => call'[d] = call[d]
        /\ call'[c].phase = "replied" /\ call[c].phase = "upcall"
    BY <1>0, <1>5 DEF Complete, CallState
  <2>2. \A d \in Clients : call'[d].phase # "upcall"
    BY <2>1 DEF OneAtATime
  <2>3. QED BY <2>2 DEF OneAtATime
<1>6. ASSUME NEW c \in Clients, Oneway_Begin(c) PROVE OneAtATime'
  <2>1. \A d \in Clients : call[d].phase # "upcall"
    BY <1>6, NobodyBusy DEF Oneway_Begin
  <2>2. QED BY <1>6, <2>1 DEF Oneway_Begin, OneAtATime
<1>7. ASSUME NEW c \in Clients, Oneway_End(c) PROVE OneAtATime'
  BY <1>0, <1>7 DEF Oneway_End, OneAtATime
<1>8. QED BY <1>2, <1>3, <1>4, <1>5, <1>6, <1>7 DEF Next, Serve

LEMMA OneAtATimeInv == Spec => []OneAtATime
<1>1. Init => OneAtATime
  BY DEF Init, Idle, OneAtATime
<1>2. Typed /\ OneAtATime /\ [Next]_vars => OneAtATime'
  BY OneAtATimeStep
<1>3. QED BY <1>1, <1>2, TypedInv, PTL DEF Spec

(* Where upcalls run on one thread, the attribute Counter never goes back, *)
(* for any number of clients and of calls: ++tmp is not atomic, but the    *)
(* thread that runs it has loaded the value that it replaces.              *)
THEOREM CounterCorrect == Spec => CounterNeverBack
<1>1. ASSUME Typed, OneAtATime, [Next]_vars
      PROVE  [server.threads = 1 => tmp' >= tmp]_vars
  <2>1. tmp \in Nat
    BY <1>1 DEF Typed, TypeOK
  <2>2. ASSUME NEW c \in Clients, Complete(c), server.threads = 1 PROVE tmp' >= tmp
    <3>1. call[c].reg = tmp
      BY <1>1, <2>2 DEF Complete, OneAtATime
    <3>2. tmp' = call[c].reg + 1 \/ tmp' = tmp
      BY <2>2 DEF Complete, Counter
    <3>3. QED BY <2>1, <3>1, <3>2
  <2>3. ASSUME NEW c \in Clients, Start(c) \/ Step(c) \/ Break(c) PROVE tmp' = tmp
    BY <1>1, <2>3, ClientEffect
  <2>4. tmp' = tmp \/ \E c \in Clients : Complete(c)
    BY <1>1, <2>3 DEF Next, vars, servant, Main, Activate_Object, Print_IOR, Remove_Ref, Run,
                      Fatal, unchangedByServer, Ended, Serve, Dispatch, Oneway_Begin, Oneway_End
  <2>5. QED BY <2>1, <2>2, <2>4
<1>2. QED BY <1>1, TypedInv, OneAtATimeInv, PTL DEF Spec, CounterNeverBack

----------------------------------------------------------------------------
(* The oneway call on one thread                                           *)

(* all_functions_client before its oneway call and after it: it does not   *)
(* come to its third test, and it does not pass.                           *)
AtOneway(c) ==
  /\ cl[c].pc \in {"start", "narrow"} => oneway[c] = "none"
  /\ cl[c].pc = "test" => (cl[c].step = 1 /\ oneway[c] = "none") \/ cl[c].step = 2
  /\ cl[c].verdict # "passed"

(* The value 1 is seen only in the delay of a oneway call, and no upcall   *)
(* runs then: no reply carries it.                                         *)
NeverOne ==
  (server.name = "functions" /\ server.threads = 1) =>
    /\ Oneway_Value = 1 => \E d \in Clients : oneway[d] = "delay"
    /\ \A c \in Clients : call[c].phase = "replied" => call[c].rep.num # 1
    /\ \A c \in Clients : AtOneway(c)

(* What all_functions_client makes of a reply that is not the value 1.     *)
LEMMA OnewayReply ==
  ASSUME Typed, NEW c \in Clients, kind[c] = "functions", AtOneway(c),
         call[c].rep.num # 1, Receive(c)
  PROVE  AtOneway(c)'
<1>1. /\ cl[c] \in ClientState /\ cl \in [Clients -> ClientState] /\ Fits(c, cl[c], call[c])
      /\ call[c].rep \in Reply
  BY DEF Typed, CallState
<1>2. PICK r, t, x : r = call[c].rep /\ t = Program(c)[cl[c].step] /\ x =
              CASE kind[c] = "other"  -> cl[c]
                [] cl[c].pc = "narrow" ->
                     IF r.kind = "value" THEN Narrowed(c, r) ELSE Uncaught(c)
                [] OTHER -> IF Caught_By(t, r) THEN After(cl[c], t, r, Program(c))
                                               ELSE Uncaught(c)
  OBVIOUS
<1>3. cl' = [cl EXCEPT ![c] = x] /\ oneway' = oneway /\ call[c].phase = "replied"
  BY <1>2 DEF Receive
<1>4. cl'[c] = x
  BY <1>1, <1>3
<1>5. /\ Len(Program(c)) = 3
      /\ Program(c)[1] = Test("oneway_void_proc", 1, "oneway", 0)
      /\ Program(c)[2] = Test("oneway_checker", 1, "one", 1)
  BY ProgramOK
<1>6. Uncaught(c).pc = "done" /\ Uncaught(c).verdict = cl[c].verdict
  BY <1>1 DEF Uncaught, ClientState
<1>7. CASE cl[c].pc = "narrow"
  <2>1. x \in {Narrowed(c, r), Uncaught(c)}
    BY <1>2, <1>7
  <2>2. Narrowed(c, r).verdict = cl[c].verdict
    /\ (Narrowed(c, r).pc = "done" \/ (Narrowed(c, r).pc = "test" /\ Narrowed(c, r).step = 1))
    <3>1. CASE r.val = "TRUE"
      <4>1. PICK s : s = [cl[c] EXCEPT !.pc = "test", !.step = 0,
                                       !.lines = IF kind[c] = "static" THEN 1 ELSE 0]
        OBVIOUS
      <4>2. /\ s.pc = "test" /\ s.step = 0 /\ s.verdict = cl[c].verdict
            /\ Narrowed(c, r) = Advance(s, Program(c))
        BY <1>1, <3>1, <4>1 DEF Narrowed, ClientState
      <4>3. Advance(s, Program(c)) = [s EXCEPT !.step = 0 + 1, !.left = Program(c)[0 + 1].calls]
        BY <1>5, <4>2 DEF Advance
      <4>4. DOMAIN s = DOMAIN cl[c]
        BY <1>1, <4>1 DEF ClientState
      <4>5. QED BY <1>1, <4>2, <4>3, <4>4 DEF ClientState
    <3>2. CASE r.val # "TRUE"
      BY <1>1, <3>2 DEF Narrowed, ClientState
    <3>3. QED BY <3>1, <3>2
  <2>3. oneway[c] = "none"
    BY <1>7 DEF AtOneway
  <2>4. QED BY <1>3, <1>4, <1>6, <2>1, <2>2, <2>3 DEF AtOneway
<1>8. CASE cl[c].pc # "narrow"
  <2>1. cl[c].pc = "test"
    BY <1>1, <1>3, <1>8 DEF Fits, ClientState
  <2>2. t.check # "oneway"
    BY <1>1, <1>2, <1>3, <2>1 DEF Fits
  <2>3. cl[c].step = 2
    BY <1>2, <1>5, <2>1, <2>2 DEF AtOneway, Test
  <2>4. t.check = "one" /\ t.op = "oneway_checker"
    BY <1>2, <1>5, <2>3 DEF Test
  <2>5. Good(cl[c], t, r) = FALSE
    BY <1>2, <2>4 DEF Good
  <2>6. x \in {After(cl[c], t, r, Program(c)), Uncaught(c)}
    BY <1>2, <1>8
  <2>7. After(cl[c], t, r, Program(c)) = end_report(output(cl[c], t, FALSE))
    BY <2>4, <2>5 DEF After
  <2>8. PICK s : s = output(cl[c], t, FALSE)
    OBVIOUS
  <2>9. "oneway_checker" \in s.failed /\ {"pc", "verdict"} \subseteq DOMAIN s
    BY <1>1, <2>4, <2>8 DEF output, ClientState
  <2>10. end_report(s).pc = "done" /\ end_report(s).verdict = "failed"
    BY <2>9 DEF end_report
  <2>11. QED BY <1>3, <1>4, <1>6, <2>6, <2>7, <2>8, <2>10 DEF AtOneway
<1>9. QED BY <1>7, <1>8

(* The other steps of the client.                                          *)
LEMMA OnewayClient ==
  ASSUME Typed, NEW c \in Clients, kind[c] = "functions", AtOneway(c),
         Start(c) \/ Send(c) \/ Send_Other(c) \/ Break(c)
  PROVE  AtOneway(c)'
<1>1. cl[c] \in ClientState /\ cl \in [Clients -> ClientState]
      /\ oneway \in [Clients -> {"none", "queued", "delay", "done"}]
  BY DEF Typed, TypeOK
<1>2. CASE Start(c)
  <2>1. cl[c].pc = "start" /\ oneway' = oneway
    BY <1>2 DEF Start
  <2>2. cl'[c].pc \in {"narrow", "done"} /\ cl'[c].verdict = cl[c].verdict
    BY <1>1, <1>2 DEF Start, ClientState
  <2>3. QED BY <2>1, <2>2 DEF AtOneway
<1>3. CASE Send(c)
  <2>1. PICK t : t = Program(c)[cl[c].step]
    OBVIOUS
  <2>2. /\ cl[c].pc = "test"
        /\ IF t.check = "oneway"
           THEN /\ oneway' = [oneway EXCEPT ![c] = "queued"]
                /\ cl' = [cl EXCEPT ![c].step = @ + 1, ![c].left = 1]
           ELSE UNCHANGED <<oneway, cl>>
    BY <1>3, <2>1 DEF Send
  <2>3. CASE t.check # "oneway"
    BY <2>2, <2>3 DEF AtOneway
  <2>4. CASE t.check = "oneway"
    <3>1. Program(c)[2].check = "one"
      BY ProgramOK DEF Test
    <3>2. cl[c].step = 1
      BY <2>1, <2>2, <2>4, <3>1 DEF AtOneway
    <3>3. cl'[c] = [cl[c] EXCEPT !.step = cl[c].step + 1, !.left = 1]
      BY <1>1, <2>2, <2>4
    <3>4. cl'[c].pc = "test" /\ cl'[c].step = cl[c].step + 1 /\ cl'[c].verdict = cl[c].verdict
      BY <1>1, <2>2, <3>3 DEF ClientState
    <3>5. cl[c].step + 1 = 2
      BY <3>2
    <3>6. QED BY <3>4, <3>5 DEF AtOneway
  <2>5. QED BY <2>3, <2>4
<1>4. CASE Send_Other(c)
  BY <1>4 DEF Send_Other
<1>5. CASE Break(c)
  <2>1. cl'[c] = Uncaught(c) /\ oneway' = oneway
    BY <1>1, <1>5 DEF Break
  <2>2. Uncaught(c).pc = "done" /\ Uncaught(c).verdict = cl[c].verdict
    BY <1>1 DEF Uncaught, ClientState
  <2>3. QED BY <2>1, <2>2 DEF AtOneway
<1>6. QED BY <1>2, <1>3, <1>4, <1>5

LEMMA NeverOneStep ==
  ASSUME Typed, OneAtATime, NeverOne, [Next]_vars
  PROVE  NeverOne'
<1> SUFFICES ASSUME server.name = "functions", server.threads = 1 PROVE NeverOne'
  <2>1. server' = server
    BY DEF Next, vars, Main, Activate_Object, Print_IOR, Remove_Ref, Run, Fatal,
           unchangedByServer, Ended, Serve, Dispatch, Complete, Oneway_Begin, Oneway_End, Start,
           Step, Send, Send_Other, Receive, Break, unchangedByClient
  <2>2. QED BY <2>1 DEF NeverOne
<1>0. /\ call \in [Clients -> CallState] /\ cl \in [Clients -> ClientState]
      /\ oneway \in [Clients -> {"none", "queued", "delay", "done"}]
      /\ \A c \in Clients : kind[c] = "functions"
  BY KindsOK DEF Typed, TypeOK
<1>1. ASSUME UNCHANGED <<server, cl, call, oneway, Oneway_Value>> PROVE NeverOne'
  BY <1>1 DEF NeverOne, AtOneway
<1>2. CASE UNCHANGED vars \/ Main \/ Ended
  BY <1>1, <1>2 DEF vars, servant, Main, Activate_Object, Print_IOR, Remove_Ref, Run, Fatal,
                    unchangedByServer, Ended
<1>3. ASSUME NEW c \in Clients, Start(c) \/ Step(c) \/ Break(c) PROVE NeverOne'
  <2>1. /\ UNCHANGED <<server, Oneway_Value>>
        /\ \A d \in Clients : d # c => /\ call'[d] = call[d] /\ cl'[d] = cl[d]
                                       /\ oneway'[d] = oneway[d]
        /\ call'[c] = call[c] \/ call'[c].phase \in {"idle", "sent"}
        /\ oneway'[c] = oneway[c] \/ (Send(c) /\ oneway'[c] = "queued")
    BY <1>3, ClientEffect
  <2>2. AtOneway(c) /\ (call[c].phase = "replied" => call[c].rep.num # 1)
    BY DEF NeverOne
  <2>3. AtOneway(c)'
    <3>1. CASE Receive(c)
      <4>1. call[c].phase = "replied"
        BY <3>1 DEF Receive
      <4>2. QED BY <1>0, <2>2, <3>1, <4>1, OnewayReply
    <3>2. CASE Start(c) \/ Send(c) \/ Send_Other(c) \/ Break(c)
      BY <1>0, <2>2, <3>2, OnewayClient
    <3>3. QED BY <1>3, <3>1, <3>2 DEF Step
  <2>4. \A d \in Clients : AtOneway(d)'
    BY <2>1, <2>3 DEF NeverOne, AtOneway
  <2>5. \A d \in Clients : call'[d].phase = "replied" => call'[d].rep.num # 1
    BY <2>1 DEF NeverOne
  <2>6. oneway[c] = "delay" => oneway'[c] = "delay"
    <3>1. CASE Send(c)
      <4>1. PICK t : t = Program(c)[cl[c].step]
        OBVIOUS
      <4>2. /\ cl[c].pc = "test"
            /\ t.check = "oneway" \/ UNCHANGED oneway
        BY <3>1, <4>1 DEF Send
      <4>3. Program(c)[2].check = "one"
        BY <1>0, ProgramOK DEF Test
      <4>4. QED BY <2>2, <4>1, <4>2, <4>3 DEF AtOneway
    <3>2. QED BY <2>1, <3>1
  <2>7. Oneway_Value' = 1 => \E d \in Clients : oneway'[d] = "delay"
    BY <2>1, <2>6 DEF NeverOne
  <2>8. QED BY <2>4, <2>5, <2>7 DEF NeverOne
<1>4. ASSUME NEW c \in Clients, Dispatch(c) PROVE NeverOne'
  <2>1. /\ \A d \in Clients : d # c => call'[d] = call[d]
        /\ call'[c].phase = "upcall" /\ UNCHANGED <<server, cl, oneway, Oneway_Value>>
    BY <1>0, <1>4 DEF Dispatch, servant, CallState
  <2>2. QED BY <2>1 DEF NeverOne, AtOneway
<1>5. ASSUME NEW c \in Clients, Complete(c) PROVE NeverOne'
  <2>1. call[c].phase = "upcall" /\ UNCHANGED <<server, cl, oneway, Oneway_Value>>
    BY <1>5 DEF Complete
  <2>2. Oneway_Value # 1
    BY <2>1 DEF NeverOne, OneAtATime
  <2>3. /\ \A d \in Clients : d # c => call'[d] = call[d]
        /\ call'[c].rep = Upcall(c, call[c].op)
    BY <1>0, <1>5 DEF Complete, CallState
  <2>4. Upcall(c, call[c].op).num # 1
    BY <2>2 DEF Upcall, Value, Number
  <2>5. QED BY <2>1, <2>2, <2>3, <2>4 DEF NeverOne, AtOneway
<1>6. ASSUME NEW c \in Clients, Oneway_Begin(c) \/ Oneway_End(c) PROVE NeverOne'
  <2>1. /\ UNCHANGED <<server, cl, call>> /\ \A d \in Clients : d # c => oneway'[d] = oneway[d]
        /\ oneway[c] \in {"queued", "delay"}
    BY <1>0, <1>6 DEF Oneway_Begin, Oneway_End
  <2>2. \A d \in Clients : AtOneway(d)'
    BY <2>1 DEF NeverOne, AtOneway
  <2>3. Oneway_Value' = 1 => oneway'[c] = "delay"
    BY <1>0, <1>6 DEF Oneway_Begin, Oneway_End
  <2>4. QED BY <2>1, <2>2, <2>3 DEF NeverOne
<1>7. QED BY <1>2, <1>3, <1>4, <1>5, <1>6 DEF Next, Serve

(* Against a server with one thread all_functions_client never passes, for *)
(* any number of clients: its first check asks for the value that the      *)
(* servant has only during the delay of a oneway call, and that delay      *)
(* keeps the thread which would have to answer.                            *)
THEOREM OnewayCorrect == Spec => []OnewayNeedsThreads
<1>1. Init => NeverOne
  BY DEF Init, NeverOne, AtOneway, Idle, Fresh
<1>2. Typed /\ OneAtATime /\ NeverOne /\ [Next]_vars => NeverOne'
  BY NeverOneStep
<1>3. NeverOne => OnewayNeedsThreads
  BY DEF NeverOne, AtOneway, OnewayNeedsThreads
<1>4. QED BY <1>1, <1>2, <1>3, TypedInv, OneAtATimeInv, PTL DEF Spec

----------------------------------------------------------------------------
(* What a check makes of a reply                                           *)

(* The test that all_types_client is at.                                   *)
LEMMA StaticTest ==
  ASSUME Typed, NEW c \in Clients, kind[c] = "static", cl[c].pc = "test"
  PROVE  /\ Program(c) = all_types_test[c] /\ Program(c) \in Programs
         /\ Len(Program(c)) \in Nat /\ cl[c].step \in 1 .. Len(Program(c))
         /\ Program(c)[cl[c].step] \in StaticTests
<1>1. Program(c) = all_types_test[c]
  BY DEF Program
<1>2. Program(c) \in Programs /\ Len(Program(c)) \in Nat
  BY <1>1, StaticProgram DEF Programs
<1>3. cl[c].step \in 1 .. Len(Program(c))
  BY DEF Typed, Fits
<1>4. QED BY <1>1, <1>2, <1>3 DEF Programs

(* The client goes on with test t, one call less to make: what has been    *)
(* counted stays.                                                          *)
Goes_On(s, t, r, m) ==
  /\ s.left > 1 /\ m.left = s.left - 1
  /\ m.pc = s.pc /\ m.step = s.step /\ m.lines = s.lines /\ m.verdict = s.verdict
  /\ m.first = s.first /\ (Good(s, t, r) => m.failed = s.failed)
  /\ Good(s, t, r) \/ t.check = "all"

(* The check is counted, and its lines are printed unless it is the one of *)
(* testException that returned.                                            *)
Counted(s, t, r, m) ==
  /\ m.pc = s.pc /\ m.step = s.step /\ m.verdict = s.verdict
  /\ m.lines = IF Printed(t, r) THEN s.lines + t.lines ELSE s.lines
  /\ m.first = IF t.check = "first" THEN r.num ELSE s.first
  /\ Good(s, t, r) \/ ~Printed(t, r) => m.failed = s.failed
  /\ ~Good(s, t, r) /\ Printed(t, r) /\ t.lines > 0 => m.failed = s.failed \cup {t.op}

LEMMA OutputCases ==
  ASSUME NEW s \in ClientState, NEW t, NEW pass \in BOOLEAN
  PROVE  /\ output(s, t, pass).pc = s.pc /\ output(s, t, pass).step = s.step
         /\ output(s, t, pass).left = s.left /\ output(s, t, pass).first = s.first
         /\ output(s, t, pass).verdict = s.verdict
         /\ output(s, t, pass).lines = s.lines + t.lines
         /\ pass => output(s, t, pass).failed = s.failed
         /\ ~pass => output(s, t, pass).failed = s.failed \cup {t.op}
BY DEF output, ClientState

LEMMA AdvanceCases ==
  ASSUME NEW prog \in Seq(Tests), NEW m \in ClientState
  PROVE  /\ m.step = Len(prog) =>
              /\ Advance(m, prog).pc = "done" /\ Advance(m, prog).lines = m.lines
              /\ Advance(m, prog).failed = m.failed
              /\ Advance(m, prog).verdict = IF m.failed = {} THEN "passed" ELSE "failed"
         /\ m.step # Len(prog) =>
              /\ Advance(m, prog).pc = m.pc /\ Advance(m, prog).lines = m.lines
              /\ Advance(m, prog).failed = m.failed
              /\ Advance(m, prog).verdict = m.verdict /\ Advance(m, prog).first = m.first
              /\ Advance(m, prog).step = m.step + 1
              /\ Advance(m, prog).left = prog[m.step + 1].calls
<1>1. CASE m.step = Len(prog)
  <2>1. Advance(m, prog) = end_report(m)
    BY <1>1 DEF Advance
  <2>2. PICK v : v = IF m.failed = {} THEN "passed" ELSE "failed"
    OBVIOUS
  <2>3. end_report(m) = [m EXCEPT !.pc = "done", !.exit = "success", !.verdict = v]
    BY <2>2 DEF end_report
  <2>4. /\ end_report(m).pc = "done" /\ end_report(m).lines = m.lines
        /\ end_report(m).failed = m.failed /\ end_report(m).verdict = v
    BY <2>3 DEF ClientState
  <2>5. QED BY <1>1, <2>1, <2>2, <2>4
<1>2. CASE m.step # Len(prog)
  <2>1. PICK k, n : k = m.step + 1 /\ n = prog[m.step + 1].calls
    OBVIOUS
  <2>2. Advance(m, prog) = [m EXCEPT !.step = k, !.left = n]
    BY <1>2, <2>1 DEF Advance
  <2>3. /\ Advance(m, prog).pc = m.pc /\ Advance(m, prog).lines = m.lines
        /\ Advance(m, prog).failed = m.failed
        /\ Advance(m, prog).verdict = m.verdict /\ Advance(m, prog).first = m.first
        /\ Advance(m, prog).step = k /\ Advance(m, prog).left = n
    BY <2>2 DEF ClientState
  <2>4. QED BY <1>2, <2>1, <2>3
<1>3. QED BY <1>1, <1>2

LEMMA AfterCases ==
  ASSUME NEW prog \in Seq(Tests), NEW s \in ClientState, NEW r \in Reply,
         NEW t \in Tests, t.check \notin {"oneway", "one", "two"},
         t.check = "first" => t.lines = 0
  PROVE  \E m \in ClientState :
           \/ Goes_On(s, t, r, m) /\ After(s, t, r, prog) = m
           \/ Counted(s, t, r, m) /\ After(s, t, r, prog) = Advance(m, prog)
<1>1. PICK good \in BOOLEAN : good = Good(s, t, r)
  BY DEF Good
<1>2. s.left \in Nat /\ s.lines \in Nat /\ t.lines \in Nat
  BY DEF ClientState, Tests
<1>3. CASE s.left > 1 /\ (good \/ t.check = "all")
  <2>1. PICK q : q = [t EXCEPT !.lines = 0]
    OBVIOUS
  <2>2. q \in Tests /\ q.check = t.check /\ q.lines = 0
    BY <2>1 DEF Tests
  <2>3. PICK o : o = output(s, q, good)
    OBVIOUS
  <2>4. /\ o \in ClientState /\ o.pc = s.pc /\ o.step = s.step /\ o.left = s.left
        /\ o.first = s.first /\ o.verdict = s.verdict /\ o.lines = s.lines + 0
        /\ good => o.failed = s.failed
    BY <2>2, <2>3, ReportTyped, OutputCases
  <2>5. PICK k \in Nat : k = s.left - 1
    BY <1>2, <1>3
  <2>6. PICK m : m = [o EXCEPT !.left = k]
    OBVIOUS
  <2>7. /\ m \in ClientState /\ m.left = k /\ m.pc = o.pc /\ m.step = o.step
        /\ m.lines = o.lines /\ m.verdict = o.verdict /\ m.first = o.first
        /\ m.failed = o.failed
    BY <2>4, <2>6 DEF ClientState
  <2>8. After(s, t, r, prog) = m
    BY <1>1, <1>3, <2>1, <2>3, <2>4, <2>5, <2>6 DEF After
  <2>9. Goes_On(s, t, r, m)
    BY <1>1, <1>2, <1>3, <2>4, <2>5, <2>7 DEF Goes_On
  <2>10. QED BY <2>7, <2>8, <2>9
<1>4. CASE ~(s.left > 1 /\ (good \/ t.check = "all")) /\ t.lines > 0 /\ Printed(t, r)
  <2>1. PICK m : m = output(s, t, good)
    OBVIOUS
  <2>2. m \in ClientState /\ Counted(s, t, r, m)
    BY <1>1, <1>4, <2>1, ReportTyped, OutputCases DEF Counted
  <2>3. After(s, t, r, prog) = Advance(m, prog)
    BY <1>1, <1>4, <2>1 DEF After
  <2>4. QED BY <2>2, <2>3
<1>5. CASE ~(s.left > 1 /\ (good \/ t.check = "all")) /\ ~(t.lines > 0 /\ Printed(t, r))
  <2>1. PICK f \in Nat : f = IF t.check = "first" THEN r.num ELSE s.first
    BY DEF Reply, ClientState
  <2>2. PICK m : m = [s EXCEPT !.first = f]
    OBVIOUS
  <2>3. /\ m \in ClientState /\ m.pc = s.pc /\ m.step = s.step /\ m.verdict = s.verdict
        /\ m.lines = s.lines /\ m.failed = s.failed /\ m.first = f
    BY <2>2 DEF ClientState
  <2>4. Printed(t, r) => ~(t.lines > 0) /\ s.lines = s.lines + t.lines
    BY <1>2, <1>5
  <2>5. Counted(s, t, r, m)
    BY <2>1, <2>3, <2>4 DEF Counted
  <2>6. After(s, t, r, prog) = Advance(m, prog)
    BY <1>1, <1>5, <2>1, <2>2 DEF After
  <2>7. QED BY <2>3, <2>5, <2>6
<1>6. QED BY <1>3, <1>4, <1>5

(* A check that fails is one that the property allows to fail.             *)
Explained(s, t, r, d) ==
  Caught_By(t, r) =>
    \/ Good(s, t, r)
    \/ t.check = "user" /\ (server.name = "static" \/ r.kind = "value")
    \/ t.check = "unknown" /\ DropsException
    \/ t.check = "green" /\ "set_myColor" \in d
    \/ t.check = "next" /\ "Counter" \in d

(* Which of the calls of the exception tests return.                       *)
Returned(t, r) ==
  /\ t.check = "user" /\ r.kind = "value" => DropsException
  /\ t.check = "unknown" /\ DropsException => r.kind = "value"

(* What the client has seen of the attributes that nobody else updated,    *)
(* and what it will see: x is the client, at test t, y its call, d what    *)
(* others updated, color and n the values of the attributes.               *)
Undisturbed(x, y, t, d, color, n) ==
  /\ ("set_myColor" \notin d /\ (\/ t.check = "green"
                                 \/ t.op = "set_myColor" /\ y.phase = "replied"))
       => color = "Green"
  /\ "Counter" \notin d =>
       /\ t.check \in {"first", "next"} /\ y.phase = "upcall" => y.reg = n
       /\ t.check = "first" /\ y.phase = "replied" => y.rep.num = n
       /\ t.check = "next" /\ y.phase # "replied" => x.first = n

Observed(c, x, y, d, color, n) ==
  (kind[c] = "static" /\ x.pc = "test") =>
    LET t == Program(c)[x.step] IN
    /\ y.phase # "idle" => y.op = t.op
    /\ t.check = "next" => x.left <= 1
    /\ y.phase = "replied" =>
         /\ Explained(x, t, y.rep, d) /\ Returned(t, y.rep)
    /\ server.name = "static" => Undisturbed(x, y, t, d, color, n)

AllObserved ==
  \A c \in Clients : Observed(c, cl[c], call[c], disturbed[c], tmpColor, tmp)

(* Less is known of a client that is more disturbed.                       *)
LEMMA MoreDisturbed ==
  ASSUME NEW c, NEW x, NEW y, NEW color, NEW n, NEW color2, NEW n2, NEW d, NEW d2,
         Observed(c, x, y, d, color, n), d \subseteq d2,
         x.pc = "test" /\ kind[c] = "static" /\ server.name = "static" =>
           /\ color2 = color \/ "set_myColor" \in d2
           /\ n2 = n \/ "Counter" \in d2
  PROVE  Observed(c, x, y, d2, color2, n2)
<1> SUFFICES ASSUME kind[c] = "static", x.pc = "test" PROVE Observed(c, x, y, d2, color2, n2)
  BY DEF Observed
<1>1. PICK t : t = Program(c)[x.step]
  OBVIOUS
<1>2. /\ y.phase # "idle" => y.op = t.op
      /\ t.check = "next" => x.left <= 1
      /\ y.phase = "replied" => Explained(x, t, y.rep, d) /\ Returned(t, y.rep)
      /\ server.name = "static" => Undisturbed(x, y, t, d, color, n)
  BY <1>1 DEF Observed
<1>3. Explained(x, t, y.rep, d) => Explained(x, t, y.rep, d2)
  BY DEF Explained
<1>4. server.name = "static" => Undisturbed(x, y, t, d2, color2, n2)
  BY <1>2 DEF Undisturbed
<1>5. QED BY <1>1, <1>2, <1>3, <1>4 DEF Observed

(* The answers of the servers to the calls of all_types_client.            *)
LEMMA StaticAnswer ==
  ASSUME Typed, NEW c \in Clients, NEW t \in StaticTests, NEW x \in ClientState, NEW d,
         kind[c] = "static", call[c].op = t.op, call[c] \in CallState,
         server.name = "static" =>
           /\ t.check = "green" /\ "set_myColor" \notin d => tmpColor = "Green"
           /\ t.check = "next" /\ "Counter" \notin d => call[c].reg = x.first
  PROVE  Explained(x, t, Upcall(c, t.op), d) /\ Returned(t, Upcall(c, t.op))
<1>1. server.name \in {"static", "dyn", "dyn_TAO", "mt_TAO"}
  BY KindsOK DEF Typed, TypeOK, Servers
<1>2. /\ t.op \in Interface /\ Suited(t)
      /\ t.check \in {"echo", "none", "green", "first", "next", "user", "unknown"}
  BY DEF StaticTests, Checks
<1>3. CASE server.name = "static"
  <2> ~DropsException
    BY <1>3 DEF DropsException
  <2>1. Upcall(c, t.op) = all_types_i(t.op, tmpColor, call[c].reg + 1)
    BY <1>3 DEF Upcall
  <2>2. CASE t.check = "echo"
    <3>1. t.op \in EchoOps
      BY <1>2, <2>2 DEF Suited
    <3>2. /\ t.op # "_is_a" /\ t.op \notin NullResult /\ t.op \notin NoEffect
          /\ t.op \notin {"get_myColor", "set_myColor", "Counter", "testException",
                          "testUnknownException"}
      BY <3>1 DEF EchoOps, ByValue, ByCopy, Composite, Duplicated, Borrowed, NullResult, NoEffect
    <3>3. Upcall(c, t.op) = Value("arg")
      BY <2>1, <3>1, <3>2 DEF all_types_i
    <3>4. QED BY <2>2, <3>3 DEF Explained, Good, Value, Returned
  <2>3. CASE t.check \in {"none", "first"}
    <3>1. \A r : Good(x, t, r)
      BY <2>3 DEF Good
    <3>2. QED BY <2>3, <3>1 DEF Explained, Returned
  <2>4. CASE t.check = "green"
    <3>1. t.op = "get_myColor"
      BY <1>2, <2>4 DEF Suited
    <3>2. Upcall(c, t.op) = Value(tmpColor)
      BY <2>1, <3>1 DEF all_types_i, EchoOps, ByValue, ByCopy, Composite, Duplicated, Borrowed,
                        NullResult, NoEffect
    <3>3. QED BY <1>3, <2>4, <3>2 DEF Explained, Good, Value, Returned
  <2>5. CASE t.check = "next"
    <3>1. t.op = "Counter"
      BY <1>2, <2>5 DEF Suited
    <3>2. Upcall(c, t.op) = Number(call[c].reg + 1)
      BY <2>1, <3>1 DEF all_types_i, EchoOps, ByValue, ByCopy, Composite, Duplicated, Borrowed,
                        NullResult, NoEffect
    <3>3. QED BY <1>3, <2>5, <3>2 DEF Explained, Good, Number, Returned
  <2>6. CASE t.check = "user"
    <3>1. t.op = "testException"
      BY <1>2, <2>6 DEF Suited
    <3>2. Upcall(c, t.op) = User(SentInfo)
      BY <2>1, <3>1 DEF all_types_i, testException, EchoOps, ByValue, ByCopy, Composite,
                        Duplicated, Borrowed, NullResult, NoEffect
    <3>3. QED BY <1>3, <2>6, <3>2 DEF Explained, User, Returned
  <2>7. CASE t.check = "unknown"
    <3>1. t.op = "testUnknownException"
      BY <1>2, <2>7 DEF Suited
    <3>2. Upcall(c, t.op) = System("UNKNOWN")
      BY <2>1, <3>1 DEF all_types_i, testUnknownException, EchoOps, ByValue, ByCopy, Composite,
                        Duplicated, Borrowed, NullResult, NoEffect
    <3>3. QED BY <2>7, <3>2 DEF Explained, Good, System, Returned
  <2>8. QED BY <1>2, <2>2, <2>3, <2>4, <2>5, <2>6, <2>7
<1>4. CASE server.name # "static"
  <2>1. PICK orb \in {"other", "TAO"} :
          /\ Upcall(c, t.op) = invoke(t.op, "IDL:all_types:1.0", orb)
          /\ DropsException <=> orb = "TAO"
    <3>1. CASE server.name = "dyn"
      BY <3>1 DEF Upcall, DropsException
    <3>2. CASE server.name \in {"dyn_TAO", "mt_TAO"}
      BY <3>2 DEF Upcall, invoke_mt, DropsException
    <3>3. QED BY <1>1, <1>4, <3>1, <3>2
  <2>2. t.op # "_is_a"
    BY <1>2 DEF Interface, EchoOps, ByValue, ByCopy, Composite, Duplicated, Borrowed,
                NullResult, NoEffect, Attributes, Exceptions
  <2>3. CASE t.op = "echoULong"
    <3>1. Upcall(c, t.op) = Value("arg")
      BY <2>1, <2>3 DEF invoke
    <3>2. t.check \in {"echo", "none"}
      BY <1>2, <2>3 DEF Suited
    <3>3. QED BY <3>1, <3>2 DEF Explained, Good, Value, Returned
  <2>4. CASE t.op # "echoULong" /\ (orb # "TAO" \/ t.op \notin Void)
    <3>1. Upcall(c, t.op) \in {System("MARSHAL"), System("BAD_OPERATION")}
      BY <2>1, <2>2, <2>4 DEF invoke, Caught
    <3>2. t.check = "unknown" => t.op \in Void
      BY <1>2 DEF Suited, Void, Exceptions
    <3>3. ~Caught_By(t, Upcall(c, t.op)) /\ Upcall(c, t.op).kind # "value"
      BY <3>1 DEF Caught_By, System
    <3>4. QED BY <2>1, <2>4, <3>2, <3>3 DEF Explained, Returned
  <2>5. CASE orb = "TAO" /\ t.op \in Void
    <3>1. t.op # "echoULong" /\ Upcall(c, t.op) = Value("void")
      BY <2>1, <2>2, <2>5 DEF invoke, Caught, Void, NoEffect, Exceptions
    <3>2. t.check \in {"none", "user", "unknown"}
      BY <1>2, <2>5 DEF Suited, Void, NoEffect, Exceptions, EchoOps, ByValue, ByCopy, Composite,
                        Duplicated, Borrowed
    <3>3. Upcall(c, t.op).kind = "value" /\ DropsException
      BY <2>1, <2>5, <3>1 DEF Value
    <3>4. t.check = "none" => Good(x, t, Upcall(c, t.op))
      BY DEF Good
    <3>5. QED BY <3>2, <3>3, <3>4 DEF Explained, Returned
  <2>6. QED BY <2>1, <2>3, <2>4, <2>5
<1>5. QED BY <1>3, <1>4

(* The start of the tests, case by case.                                   *)
LEMMA NarrowedCases ==
  ASSUME NEW c \in Clients, cl[c] \in ClientState, NEW r
  PROVE  \/ \E m \in ClientState :
              /\ m.pc = "test" /\ m.step = 0 /\ m.verdict = cl[c].verdict
              /\ m.lines = IF kind[c] = "static" THEN 1 ELSE 0
              /\ m.failed = cl[c].failed /\ Narrowed(c, r) = Advance(m, Program(c))
         \/ /\ Narrowed(c, r).pc = "done" /\ Narrowed(c, r).verdict = cl[c].verdict
            /\ Narrowed(c, r).failed = cl[c].failed /\ Narrowed(c, r).lines = cl[c].lines
<1>1. CASE r.val = "TRUE"
  <2>1. PICK n \in {0, 1} : n = IF kind[c] = "static" THEN 1 ELSE 0
    OBVIOUS
  <2>2. PICK k : k = 0
    OBVIOUS
  <2>3. k \in 0 .. 40 /\ n \in Nat
    BY <2>1, <2>2
  <2>4. PICK m : m = [cl[c] EXCEPT !.pc = "test", !.step = k, !.lines = n]
    OBVIOUS
  <2>5. /\ m \in ClientState /\ m.pc = "test" /\ m.step = k /\ m.verdict = cl[c].verdict
        /\ m.lines = n /\ m.failed = cl[c].failed
    BY <2>3, <2>4 DEF ClientState
  <2>6. Narrowed(c, r) = Advance(m, Program(c))
    BY <1>1, <2>1, <2>2, <2>4 DEF Narrowed
  <2>7. QED BY <2>1, <2>2, <2>5, <2>6
<1>2. CASE r.val # "TRUE"
  BY <1>2 DEF Narrowed, ClientState
<1>3. QED BY <1>1, <1>2

(* An invariant of the clients, from what it is of each of them.           *)
LEMMA AllStay ==
  ASSUME UNCHANGED <<server, kind>>,
         \A d \in Clients : Observed(d, cl'[d], call'[d], disturbed'[d], tmpColor', tmp')
  PROVE  AllObserved'
<1>1. ASSUME NEW d \in Clients
      PROVE  Observed(d, cl[d], call[d], disturbed[d], tmpColor, tmp)'
  <2>1. Program(d)' = Program(d)
    BY DEF Program
  <2>2. QED BY <1>1, <2>1 DEF Observed, Undisturbed, Explained, Returned, Good, Caught_By,
                             DropsException
<1>2. QED BY <1>1 DEF AllObserved

LEMMA DispatchObserved ==
  ASSUME Typed, AllObserved, NEW c \in Clients, Dispatch(c)
  PROVE  AllObserved'
<1>1. /\ UNCHANGED <<server, kind, tmp, tmpColor, cl, disturbed>>
      /\ call' = [call EXCEPT ![c] = [call[c] EXCEPT !.phase = "upcall", !.reg = tmp]]
      /\ call[c].phase = "sent" /\ call \in [Clients -> CallState]
  BY DEF Dispatch, servant, Typed
<1>2. PICK y : y = [call[c] EXCEPT !.phase = "upcall", !.reg = tmp]
  OBVIOUS
<1>3. y.phase = "upcall" /\ y.reg = tmp /\ y.op = call[c].op
  BY <1>1, <1>2 DEF CallState
<1>4. Observed(c, cl[c], call[c], disturbed[c], tmpColor, tmp)
  BY DEF AllObserved
<1>5. Observed(c, cl[c], y, disturbed[c], tmpColor, tmp)
  BY <1>1, <1>3, <1>4 DEF Observed, Undisturbed
<1>6. \A d \in Clients : Observed(d, cl'[d], call'[d], disturbed'[d], tmpColor', tmp')
  BY <1>1, <1>2, <1>5 DEF AllObserved
<1>7. QED BY <1>1, <1>6, AllStay

LEMMA CompleteObserved ==
  ASSUME Typed, AllObserved, NEW c \in Clients, Complete(c)
  PROVE  AllObserved'
<1>1. PICK op, y : /\ op = call[c].op
                   /\ y = [call[c] EXCEPT !.phase = "replied", !.reg = 0, !.rep = Upcall(c, op)]
  OBVIOUS
<1>2. /\ UNCHANGED <<server, kind, cl>> /\ call[c].phase = "upcall"
      /\ call' = [call EXCEPT ![c] = y] /\ call \in [Clients -> CallState]
      /\ cl \in [Clients -> ClientState]
      /\ disturbed \in [Clients -> SUBSET {"Counter", "set_myColor"}]
  BY <1>1 DEF Complete, Typed
<1>3. /\ IF server.name = "static" /\ op = "Counter" THEN tmp' = call[c].reg + 1
                                                    ELSE UNCHANGED tmp
      /\ IF server.name = "static" /\ op = "set_myColor"
           THEN kind[c] = "static" => tmpColor' = "Green"
           ELSE UNCHANGED tmpColor
  BY <1>1 DEF Complete, Counter, SetMyColor
<1>4. disturbed' = [d \in Clients |->
                     IF /\ d # c /\ cl[d].pc = "test" /\ kind[d] = "static"
                        /\ op \in {"Counter", "set_myColor"}
                     THEN disturbed[d] \cup {op} ELSE disturbed[d]]
  BY <1>1 DEF Complete
<1>5. y.phase = "replied" /\ y.op = op /\ y.rep = Upcall(c, op)
  BY <1>1, <1>2 DEF CallState
<1>6. ASSUME NEW d \in Clients, d # c
      PROVE  Observed(d, cl'[d], call'[d], disturbed'[d], tmpColor', tmp')
  <2>1. Observed(d, cl[d], call[d], disturbed[d], tmpColor, tmp)
    BY DEF AllObserved
  <2>2. disturbed[d] \subseteq disturbed'[d]
    BY <1>2, <1>4
  <2>3. cl[d].pc = "test" /\ kind[d] = "static" /\ server.name = "static" =>
          /\ tmpColor' = tmpColor \/ "set_myColor" \in disturbed'[d]
          /\ tmp' = tmp \/ "Counter" \in disturbed'[d]
    BY <1>2, <1>3, <1>4, <1>6
  <2>4. cl'[d] = cl[d] /\ call'[d] = call[d]
    BY <1>2, <1>6
  <2>5. QED BY <2>1, <2>2, <2>3, <2>4, MoreDisturbed
<1>7. Observed(c, cl[c], y, disturbed[c], tmpColor', tmp')
  <2> SUFFICES ASSUME kind[c] = "static", cl[c].pc = "test"
               PROVE  Observed(c, cl[c], y, disturbed[c], tmpColor', tmp')
    BY DEF Observed
  <2>1. PICK t : t = Program(c)[cl[c].step]
    OBVIOUS
  <2>2. t \in StaticTests /\ Suited(t)
    BY <2>1, StaticTest DEF StaticTests
  <2>3. /\ op = t.op /\ (t.check = "next" => cl[c].left <= 1)
        /\ server.name = "static" =>
             Undisturbed(cl[c], call[c], t, disturbed[c], tmpColor, tmp)
    BY <1>1, <1>2, <2>1 DEF AllObserved, Observed
  <2>4. server.name = "static" =>
           /\ t.check = "green" /\ "set_myColor" \notin disturbed[c] => tmpColor = "Green"
           /\ t.check = "next" /\ "Counter" \notin disturbed[c] => call[c].reg = cl[c].first
    BY <1>2, <2>3 DEF Undisturbed
  <2>5. Explained(cl[c], t, y.rep, disturbed[c]) /\ Returned(t, y.rep)
    BY <1>1, <1>2, <1>5, <2>2, <2>3, <2>4, StaticAnswer
  <2>6. ASSUME server.name = "static"
        PROVE  Undisturbed(cl[c], y, t, disturbed[c], tmpColor', tmp')
    <3>1. t.check = "green" => tmpColor' = tmpColor
      BY <1>3, <2>2, <2>3 DEF Suited
    <3>2. t.op = "set_myColor" => tmpColor' = "Green"
      BY <1>3, <2>3, <2>6
    <3>3. t.check = "first" => y.rep.num = tmp'
      <4> SUFFICES ASSUME t.check = "first" PROVE y.rep.num = tmp'
        OBVIOUS
      <4>1. op = "Counter"
        BY <2>2, <2>3 DEF Suited
      <4>2. Upcall(c, op) = Number(call[c].reg + 1)
        BY <2>6, <4>1 DEF Upcall, all_types_i, EchoOps, ByValue, ByCopy, Composite, Duplicated,
                          Borrowed, NullResult, NoEffect
      <4>3. QED BY <1>3, <1>5, <2>6, <4>1, <4>2 DEF Number
    <3>4. QED BY <1>5, <2>3, <2>4, <2>6, <3>1, <3>2, <3>3 DEF Undisturbed
  <2>7. QED BY <1>5, <2>1, <2>3, <2>5, <2>6 DEF Observed
<1>8. \A d \in Clients : Observed(d, cl'[d], call'[d], disturbed'[d], tmpColor', tmp')
  BY <1>2, <1>4, <1>6, <1>7
<1>9. QED BY <1>2, <1>8, AllStay

(* A client that is not at a test, or that is at one with no call.         *)
LEMMA ReceiveObserved ==
  ASSUME Typed, AllObserved, NEW c \in Clients, Receive(c), kind[c] = "static"
  PROVE  Observed(c, cl'[c], Idle, disturbed[c], tmpColor, tmp)
<1>1. /\ cl[c] \in ClientState /\ cl \in [Clients -> ClientState] /\ Fits(c, cl[c], call[c])
      /\ call[c].rep \in Reply /\ call[c].phase = "replied"
  BY DEF Typed, CallState, Receive
<1>2. Idle.phase = "idle"
  BY DEF Idle
<1>3. PICK r, t : r = call[c].rep /\ t = Program(c)[cl[c].step]
  OBVIOUS
<1>4. cl'[c] = CASE kind[c] = "other"  -> cl[c]
                [] cl[c].pc = "narrow" ->
                     IF r.kind = "value" THEN Narrowed(c, r) ELSE Uncaught(c)
                [] OTHER -> IF Caught_By(t, r) THEN After(cl[c], t, r, Program(c))
                                               ELSE Uncaught(c)
  BY <1>1, <1>3 DEF Receive
<1>5. Program(c) \in Seq(Tests) /\ Len(Program(c)) <= 40 /\ Len(Program(c)) \in Nat
  BY KindsOK, ProgramOK
<1>6. Program(c) \in Programs
  BY StaticProgram DEF Program
<1>7. ASSUME cl'[c] = Uncaught(c)
      PROVE  Observed(c, cl'[c], Idle, disturbed[c], tmpColor, tmp)
  BY <1>7, UncaughtTyped DEF Observed
<1>8. CASE cl[c].pc = "narrow"
  <2> SUFFICES ASSUME cl'[c] = Narrowed(c, r)
               PROVE  Observed(c, cl'[c], Idle, disturbed[c], tmpColor, tmp)
    BY <1>4, <1>7, <1>8
  <2> SUFFICES ASSUME cl'[c].pc = "test"
               PROVE  Observed(c, cl'[c], Idle, disturbed[c], tmpColor, tmp)
    BY DEF Observed
  <2>1. PICK m \in ClientState : m.step = 0 /\ cl'[c] = Advance(m, Program(c))
    BY <1>1, NarrowedCases
  <2>2. 0 # Len(Program(c)) /\ cl'[c].step = 0 + 1
    BY <1>5, <2>1, AdvanceCases
  <2>3. Program(c)[1].check \notin {"green", "next"}
    <3>1. 1 \in 1 .. Len(Program(c)) /\ ~(1 > 1)
      BY <1>5, <2>2
    <3>2. QED BY <1>6, <3>1 DEF Programs, Chained
  <2>4. QED BY <1>2, <2>2, <2>3 DEF Observed, Undisturbed
<1>9. CASE cl[c].pc # "narrow"
  <2>1. cl[c].pc = "test"
    BY <1>1, <1>9 DEF Fits, ClientState
  <2>2. t \in StaticTests /\ Suited(t) /\ cl[c].step \in 1 .. Len(Program(c))
    BY <1>3, <2>1, StaticTest DEF StaticTests
  <2>3. t \in Tests /\ t.check \notin {"oneway", "one", "two"}
    BY <1>3, <1>5, <2>2 DEF StaticTests
  <2>4. /\ t.check = "next" => cl[c].left <= 1
        /\ server.name = "static" =>
             Undisturbed(cl[c], call[c], t, disturbed[c], tmpColor, tmp)
    BY <1>1, <1>3, <2>1 DEF AllObserved, Observed
  <2>5. t.check = "first" => t.lines = 0
    BY <2>2 DEF Suited
  <2> SUFFICES ASSUME cl'[c] = After(cl[c], t, r, Program(c))
               PROVE  Observed(c, cl'[c], Idle, disturbed[c], tmpColor, tmp)
    BY <1>4, <1>7, <1>9
  <2>6. PICK m \in ClientState :
           \/ Goes_On(cl[c], t, r, m) /\ cl'[c] = m
           \/ Counted(cl[c], t, r, m) /\ cl'[c] = Advance(m, Program(c))
    BY <1>1, <1>3, <1>5, <2>3, <2>4, <2>5, AfterCases
  <2>7. CASE Goes_On(cl[c], t, r, m) /\ cl'[c] = m
    <3>1. m.step = cl[c].step /\ cl[c].left > 1 /\ cl[c].left \in Nat
      BY <1>1, <2>7 DEF Goes_On, ClientState
    <3>2. t.check # "next"
      BY <2>4, <3>1
    <3>3. server.name = "static" => Undisturbed(m, Idle, t, disturbed[c], tmpColor, tmp)
      BY <1>2, <2>4, <3>2 DEF Undisturbed
    <3>4. QED BY <1>2, <1>3, <2>7, <3>1, <3>2, <3>3 DEF Observed
  <2>8. CASE Counted(cl[c], t, r, m) /\ cl'[c] = Advance(m, Program(c))
    <3> SUFFICES ASSUME cl'[c].pc = "test"
                 PROVE  Observed(c, cl'[c], Idle, disturbed[c], tmpColor, tmp)
      BY DEF Observed
    <3>1. m.step = cl[c].step /\ m.first = IF t.check = "first" THEN r.num ELSE cl[c].first
      BY <2>8 DEF Counted
    <3>2. m.step # Len(Program(c))
      BY <1>5, <2>8, AdvanceCases
    <3>3. PICK i : i = cl[c].step + 1
      OBVIOUS
    <3>4. cl'[c].step = i /\ cl'[c].first = m.first /\ cl'[c].left = Program(c)[i].calls
      BY <1>5, <2>8, <3>1, <3>2, <3>3, AdvanceCases
    <3>5. i \in 1 .. Len(Program(c)) /\ i - 1 = cl[c].step
      BY <1>5, <2>2, <3>1, <3>2, <3>3
    <3>6. PICK u \in StaticTests : u = Program(c)[i]
      BY <1>6, <3>5 DEF Programs
    <3>7. /\ u.check = "green" => t.op = "set_myColor"
          /\ u.check = "next" => t.check = "first"
      BY <1>3, <1>6, <3>5, <3>6 DEF Programs, Chained
    <3>8. u.check = "next" => u.calls = 1
      BY <3>6 DEF StaticTests, Suited
    <3>9. server.name = "static" => Undisturbed(cl'[c], Idle, u, disturbed[c], tmpColor, tmp)
      BY <1>1, <1>2, <1>3, <2>4, <3>1, <3>4, <3>7 DEF Undisturbed
    <3>10. QED BY <1>2, <3>4, <3>6, <3>8, <3>9 DEF Observed
  <2>9. QED BY <2>6, <2>7, <2>8
<1>10. QED BY <1>8, <1>9

(* The other steps of a client.                                            *)
LEMMA ClientObserved ==
  ASSUME Typed, AllObserved, NEW c \in Clients, Start(c) \/ Step(c) \/ Break(c)
  PROVE  AllObserved'
<1>1. /\ cl[c] \in ClientState /\ cl \in [Clients -> ClientState] /\ Fits(c, cl[c], call[c])
      /\ call \in [Clients -> CallState]
      /\ disturbed \in [Clients -> SUBSET {"Counter", "set_myColor"}]
  BY DEF Typed
<1>2. /\ UNCHANGED <<server, kind, tmp>>
      /\ \A d \in Clients : d # c => call'[d] = call[d] /\ cl'[d] = cl[d]
  BY ClientEffect
<1>3. UNCHANGED tmpColor /\ \A d \in Clients : d # c => disturbed'[d] = disturbed[d]
  BY <1>1 DEF Start, Step, Send, Send_Other, Receive, Break, unchangedByClient, servant
<1>4. ASSUME Observed(c, cl'[c], call'[c], disturbed'[c], tmpColor, tmp)
      PROVE  AllObserved'
  <2>1. \A d \in Clients : Observed(d, cl'[d], call'[d], disturbed'[d], tmpColor', tmp')
    BY <1>2, <1>3, <1>4 DEF AllObserved
  <2>2. QED BY <1>2, <2>1, AllStay
<1> SUFFICES ASSUME kind[c] = "static", cl'[c].pc = "test"
             PROVE  Observed(c, cl'[c], call'[c], disturbed'[c], tmpColor, tmp)
  BY <1>4 DEF Observed
<1>5. CASE Start(c)
  <2>1. cl'[c].pc \in {"done", "narrow"}
    BY <1>1, <1>5 DEF Start, ClientState
  <2>2. QED BY <2>1
<1>6. CASE Send(c)
  <2>1. PICK t : t = Program(c)[cl[c].step]
    OBVIOUS
  <2>2. cl[c].pc = "test" /\ call[c].phase = "idle"
    BY <1>6 DEF Send
  <2>3. t \in StaticTests /\ Suited(t)
    BY <2>1, <2>2, StaticTest DEF StaticTests
  <2>4. /\ call' = [call EXCEPT ![c] = Request(t.op)] /\ UNCHANGED cl
        /\ disturbed' = IF t.op = "set_myColor" \/ t.check = "first"
                        THEN [disturbed EXCEPT ![c] = {}] ELSE disturbed
    BY <1>6, <2>1, <2>3 DEF Send, StaticTests
  <2>5. call'[c] = Request(t.op) /\ Request(t.op).phase = "sent" /\ Request(t.op).op = t.op
    BY <1>1, <2>4 DEF Request, Idle
  <2>6. /\ t.check = "next" => cl[c].left <= 1
        /\ server.name = "static" =>
             Undisturbed(cl[c], call[c], t, disturbed[c], tmpColor, tmp)
    BY <2>1, <2>2 DEF AllObserved, Observed
  <2>7. t.check \in {"green", "next"} => disturbed'[c] = disturbed[c]
    BY <2>3, <2>4 DEF Suited
  <2>8. server.name = "static" =>
          Undisturbed(cl[c], call'[c], t, disturbed'[c], tmpColor, tmp)
    BY <2>2, <2>5, <2>6, <2>7 DEF Undisturbed
  <2>9. QED BY <2>1, <2>4, <2>5, <2>6, <2>8 DEF Observed
<1>7. CASE Send_Other(c)
  BY <1>7 DEF Send_Other
<1>8. CASE Receive(c)
  <2>1. call'[c] = Idle /\ disturbed' = disturbed
    BY <1>1, <1>8 DEF Receive
  <2>2. QED BY <1>8, <2>1, ReceiveObserved
<1>9. CASE Break(c)
  <2>1. cl'[c] = Uncaught(c)
    BY <1>1, <1>9 DEF Break
  <2>2. QED BY <2>1, UncaughtTyped
<1>10. QED BY <1>5, <1>6, <1>7, <1>8, <1>9 DEF Step

LEMMA AllObservedInv == Spec => []AllObserved
<1>1. Init => AllObserved
  <2> SUFFICES ASSUME Init, NEW c \in Clients
               PROVE  Observed(c, cl[c], call[c], disturbed[c], tmpColor, tmp)
    BY DEF AllObserved
  <2>1. cl[c].pc = "start"
    BY DEF Init, Fresh
  <2>2. QED BY <2>1 DEF Observed
<1>2. ASSUME Typed, AllObserved, [Next]_vars PROVE AllObserved'
  <2>1. ASSUME UNCHANGED <<server, kind, tmp, tmpColor, cl, call, disturbed>> PROVE AllObserved'
    <3>1. \A d \in Clients : Observed(d, cl'[d], call'[d], disturbed'[d], tmpColor', tmp')
      BY <1>2, <2>1 DEF AllObserved
    <3>2. QED BY <2>1, <3>1, AllStay
  <2>2. CASE UNCHANGED vars \/ Main \/ Ended
    BY <2>1, <2>2 DEF vars, servant, Main, Activate_Object, Print_IOR, Remove_Ref, Run, Fatal,
                      unchangedByServer, Ended
  <2>3. ASSUME NEW c \in Clients, Serve(c) PROVE AllObserved'
    <3>1. CASE Oneway_Begin(c) \/ Oneway_End(c)
      BY <2>1, <3>1 DEF Oneway_Begin, Oneway_End
    <3>2. QED BY <1>2, <2>3, <3>1, DispatchObserved, CompleteObserved DEF Serve
  <2>4. QED BY <1>2, <2>2, <2>3, ClientObserved DEF Next
<1>3. QED BY <1>1, <1>2, TypedInv, PTL DEF Spec

(* A check of all_types_client fails for the reasons that the property     *)
(* names and for no other, with any number of clients, of calls and of     *)
(* threads: the values that nobody else updated between the two calls of a *)
(* check are those that the servant keeps, and the dynamic servers answer  *)
(* what they do not know by an exception that ends the program.            *)
THEOREM FailuresCorrect == Spec => FailuresExplained
<1>1. ASSUME Typed, AllObserved, [Next]_vars,
             NEW c \in Clients, kind[c] = "static", cl'[c].failed # cl[c].failed
      PROVE  LET t == all_types_test[c][cl[c].step]
             IN \/ t.check = "user" /\ server.name = "static"
                \/ t.check = "unknown" /\ DropsException
                \/ t.check = "green" /\ "set_myColor" \in disturbed[c]
                \/ t.check = "next" /\ "Counter" \in disturbed[c]
  <2>1. /\ cl[c] \in ClientState /\ cl \in [Clients -> ClientState] /\ Fits(c, cl[c], call[c])
    BY <1>1 DEF Typed
  <2>2. Uncaught(c).failed = cl[c].failed
    BY <2>1 DEF Uncaught, ClientState
  <2>3. Receive(c)
    <3>1. cl' # cl
      BY <1>1
    <3>2. PICK d \in Clients : Start(d) \/ Step(d) \/ Break(d)
      BY <1>1, <3>1 DEF Next, vars, Main, Activate_Object, Print_IOR, Remove_Ref, Run, Fatal,
                        unchangedByServer, Ended, Serve, Dispatch, Complete, Oneway_Begin,
                        Oneway_End
    <3>3. d = c
      BY <1>1, <3>2, ClientEffect
    <3>4. CASE Start(c) \/ Send(c) \/ Send_Other(c)
      <4>1. cl'[c].failed = cl[c].failed
        BY <2>1, <3>4 DEF Start, Send, Send_Other, ClientState
      <4>2. QED BY <1>1, <4>1
    <3>5. CASE Break(c)
      BY <1>1, <2>1, <2>2, <3>5 DEF Break
    <3>6. QED BY <3>2, <3>3, <3>4, <3>5 DEF Step
  <2>4. PICK r, t : r = call[c].rep /\ t = Program(c)[cl[c].step]
    OBVIOUS
  <2>5. /\ call[c].phase = "replied" /\ call[c].rep \in Reply
        /\ cl'[c] = CASE kind[c] = "other"  -> cl[c]
                [] cl[c].pc = "narrow" ->
                     IF r.kind = "value" THEN Narrowed(c, r) ELSE Uncaught(c)
                [] OTHER -> IF Caught_By(t, r) THEN After(cl[c], t, r, Program(c))
                                               ELSE Uncaught(c)
    BY <1>1, <2>1, <2>3, <2>4 DEF Receive, Typed, CallState
  <2>6. Program(c) \in Seq(Tests) /\ Len(Program(c)) <= 40 /\ Len(Program(c)) \in Nat
    BY <1>1, KindsOK, ProgramOK
  <2>7. cl[c].pc # "narrow"
    <3> SUFFICES ASSUME cl[c].pc = "narrow" PROVE cl'[c].failed = cl[c].failed
      BY <1>1
    <3>1. Narrowed(c, r).failed = cl[c].failed
      <4>1. CASE Narrowed(c, r).failed = cl[c].failed
        BY <4>1
      <4>2. CASE \E m \in ClientState :
                   m.failed = cl[c].failed /\ Narrowed(c, r) = Advance(m, Program(c))
        BY <2>6, <4>2, AdvanceCases
      <4>3. QED BY <2>1, <4>1, <4>2, NarrowedCases
    <3>2. QED BY <1>1, <2>2, <2>5, <3>1
  <2>8. cl[c].pc = "test"
    BY <2>1, <2>5, <2>7 DEF Fits, ClientState
  <2>9. /\ Program(c) = all_types_test[c] /\ t \in StaticTests /\ Suited(t)
        /\ cl[c].step \in 1 .. Len(Program(c))
    BY <1>1, <2>4, <2>8, StaticTest DEF StaticTests
  <2>10. t \in Tests /\ t.check \notin {"oneway", "one", "two"}
    BY <2>4, <2>6, <2>9 DEF StaticTests
  <2>11. Explained(cl[c], t, r, disturbed[c])
    BY <1>1, <2>4, <2>5, <2>8 DEF AllObserved, Observed
  <2>12. Caught_By(t, r) /\ cl'[c] = After(cl[c], t, r, Program(c))
    BY <1>1, <2>2, <2>5, <2>7
  <2>13. t.check = "first" => t.lines = 0
    BY <2>9 DEF Suited
  <2>14. PICK m \in ClientState :
           \/ Goes_On(cl[c], t, r, m) /\ cl'[c] = m
           \/ Counted(cl[c], t, r, m) /\ cl'[c] = Advance(m, Program(c))
    BY <2>1, <2>4, <2>5, <2>6, <2>10, <2>11, <2>12, <2>13, AfterCases
  <2>15. cl'[c].failed = m.failed
    BY <2>6, <2>14, AdvanceCases
  <2>16. ~Good(cl[c], t, r) /\ ~(t.check = "user" /\ r.kind = "value")
    <3>1. CASE Goes_On(cl[c], t, r, m)
      BY <1>1, <2>15, <3>1 DEF Goes_On
    <3>2. CASE Counted(cl[c], t, r, m)
      BY <1>1, <2>15, <3>2 DEF Counted, Printed
    <3>3. QED BY <2>14, <3>1, <3>2
  <2>17. QED BY <2>4, <2>9, <2>11, <2>12, <2>16 DEF Explained
<1>2. Typed /\ AllObserved /\ [Next]_vars =>
      [\A c \in Clients :
       LET t == all_types_test[c][cl[c].step]
       IN (kind[c] = "static" /\ cl'[c].failed # cl[c].failed) =>
            \/ t.check = "user" /\ server.name = "static"
            \/ t.check = "unknown" /\ DropsException
            \/ t.check = "green" /\ "set_myColor" \in disturbed[c]
            \/ t.check = "next" /\ "Counter" \in disturbed[c]]_vars
  BY <1>1
<1>3. QED BY <1>2, TypedInv, AllObservedInv, PTL DEF Spec, FailuresExplained

----------------------------------------------------------------------------
(* The lines that a client prints                                          *)

LEMMA LinesStart == \A prog : Lines(prog, 0) = 0
<1> SUFFICES ASSUME NEW prog PROVE Lines(prog, 0) = 0
  OBVIOUS
<1>1. {l \in (1 .. 0) \X {1, 2} : l[2] <= prog[l[1]].lines} = {}
  OBVIOUS
<1>2. QED BY <1>1, FS_EmptySet DEF Lines

LEMMA LinesNext ==
  ASSUME NEW prog, NEW n \in Nat, NEW k \in 0 .. 2, k = prog[n + 1].lines
  PROVE  Lines(prog, n + 1) = Lines(prog, n) + k /\ Lines(prog, n) \in Nat
<1> DEFINE S == {l \in (1 .. n) \X {1, 2} : l[2] <= prog[l[1]].lines}
           T == {l \in (1 .. n + 1) \X {1, 2} : l[2] <= prog[l[1]].lines}
           one == <<n + 1, 1>>
           two == <<n + 1, 2>>
<1>1. IsFiniteSet(S)
  <2>1. IsFiniteSet(1 .. n) /\ IsFiniteSet(1 .. 2)
    <3>1. 1 \in Int /\ 2 \in Int /\ n \in Int
      OBVIOUS
    <3>2. \A a, b \in Int : IsFiniteSet(a .. b)
      BY FS_Interval
    <3>3. QED BY <3>1, <3>2
  <2>2. 1 .. 2 = {1, 2}
    OBVIOUS
  <2>3. IsFiniteSet((1 .. n) \X {1, 2})
    BY <2>1, <2>2, FS_Product
  <2>4. QED BY <2>3, FS_Subset
<1>2. \A l : l \in (1 .. n + 1) \X {1, 2} <=> l \in (1 .. n) \X {1, 2} \/ l = one \/ l = two
  <2>1. \A i : i \in 1 .. n + 1 <=> i \in 1 .. n \/ i = n + 1
    OBVIOUS
  <2>2. QED BY <2>1
<1>3. one[1] = n + 1 /\ one[2] = 1 /\ two[1] = n + 1 /\ two[2] = 2 /\ one # two
  OBVIOUS
<1>4. one \notin S /\ two \notin S
  <2>1. n + 1 \notin 1 .. n
    OBVIOUS
  <2>2. QED BY <2>1
<1> HIDE DEF one, two
<1>5. Cardinality(S) \in Nat /\ Lines(prog, n) = Cardinality(S)
  BY <1>1, FS_CardinalityType DEF Lines
<1>6. Lines(prog, n + 1) = Cardinality(T)
  BY DEF Lines
<1>7. \A l : l \in T <=> l \in S \/ (l = one /\ 1 <= k) \/ (l = two /\ 2 <= k)
  BY <1>2, <1>3
<1> HIDE DEF S, T
<1>8. CASE k = 0
  <2>1. T = S
    BY <1>7, <1>8
  <2>2. QED BY <1>5, <1>6, <1>8, <2>1
<1>9. CASE k = 1
  <2>1. T = S \cup {one}
    BY <1>7, <1>9
  <2>2. Cardinality(S \cup {one}) = Cardinality(S) + 1
    BY <1>1, <1>4, FS_AddElement
  <2>3. QED BY <1>5, <1>6, <1>9, <2>1, <2>2
<1>10. CASE k = 2
  <2>1. T = (S \cup {one}) \cup {two}
    BY <1>7, <1>10
  <2>2. IsFiniteSet(S \cup {one}) /\ Cardinality(S \cup {one}) = Cardinality(S) + 1
    BY <1>1, <1>4, FS_AddElement
  <2>3. two \notin S \cup {one}
    BY <1>3, <1>4
  <2>4. Cardinality((S \cup {one}) \cup {two}) = Cardinality(S \cup {one}) + 1
    BY <2>2, <2>3, FS_AddElement
  <2>5. QED BY <1>5, <1>6, <1>10, <2>1, <2>2, <2>4
<1>11. QED BY <1>8, <1>9, <1>10

(* What a client has printed before the check after the first n.           *)
Before(c, n) ==
  CASE kind[c] = "static" -> 1 + Lines(Program(c), n)
    [] kind[c] = "dyn"    -> Lines(Program(c), n)
    [] OTHER              -> 0

(* The line of testException is missing, and the check that follows is the *)
(* last: it fails against this server.                                     *)
Missed(c, x) ==
  /\ kind[c] = "static" /\ DropsException
  /\ x.step = Len(Program(c)) /\ Program(c)[x.step].check = "unknown"
  /\ x.lines = Before(c, x.step - 1) - 1

(* What a client x has printed agrees with where it is, and a verdict with *)
(* what it is about.                                                       *)
Tally(c, x) ==
  /\ x.pc \in {"start", "narrow"} => x.lines = 0 /\ x.verdict = "none"
  /\ x.pc = "test" => x.verdict = "none"
  /\ x.pc = "test" /\ kind[c] # "other" =>
       x.lines = Before(c, x.step - 1) \/ Missed(c, x)
  /\ x.verdict # "none" =>
       /\ (x.verdict = "passed") <=> (x.failed = {})
       /\ \/ x.lines = Printed_By(c)
          \/ /\ DropsException /\ "testUnknownException" \in x.failed
             /\ x.lines = Printed_By(c) - 1

AllTally == \A c \in Clients : Tally(c, cl[c])

(* The next test, or the verdict.                                          *)
LEMMA AdvanceTally ==
  ASSUME NEW c \in Clients, kind[c] \in {"static", "dyn"}, NEW m \in ClientState,
         m.pc = "test", m.verdict = "none", m.step \in 0 .. Len(Program(c)),
         \/ m.lines = Before(c, m.step)
         \/ /\ kind[c] = "static" /\ DropsException /\ m.lines = Before(c, m.step) - 1
            /\ \/ m.step = Len(Program(c)) /\ "testUnknownException" \in m.failed
               \/ /\ m.step + 1 = Len(Program(c))
                  /\ Program(c)[m.step + 1].check = "unknown"
  PROVE  Tally(c, Advance(m, Program(c)))
<1>1. Program(c) \in Seq(Tests) /\ Len(Program(c)) \in Nat
  BY ProgramOK
<1>2. CASE m.step = Len(Program(c))
  <2>1. /\ Advance(m, Program(c)).pc = "done" /\ Advance(m, Program(c)).lines = m.lines
        /\ Advance(m, Program(c)).failed = m.failed
        /\ Advance(m, Program(c)).verdict = IF m.failed = {} THEN "passed" ELSE "failed"
    BY <1>1, <1>2, AdvanceCases
  <2>2. Before(c, m.step) = Printed_By(c)
    BY <1>2 DEF Before, Printed_By
  <2>3. m.step + 1 # Len(Program(c))
    BY <1>1, <1>2
  <2>4. QED BY <2>1, <2>2, <2>3 DEF Tally
<1>3. CASE m.step # Len(Program(c))
  <2>1. PICK x : x = Advance(m, Program(c))
    OBVIOUS
  <2>2. x.pc = "test" /\ x.lines = m.lines /\ x.verdict = "none" /\ x.step = m.step + 1
    BY <1>1, <1>3, <2>1, AdvanceCases
  <2>3. x.step - 1 = m.step
    BY <2>2
  <2>4. QED BY <1>3, <2>1, <2>2, <2>3 DEF Tally, Missed
<1>4. QED BY <1>2, <1>3

(* The replies of all_types_client and of the dynamic client.              *)
LEMMA AfterTally ==
  ASSUME Typed, AllObserved, NEW c \in Clients, Tally(c, cl[c]), kind[c] \in {"static", "dyn"},
         cl[c].pc = "test", call[c].phase = "replied", NEW r, r = call[c].rep,
         NEW t, t = Program(c)[cl[c].step]
  PROVE  Tally(c, After(cl[c], t, r, Program(c)))
<1>1. /\ cl[c] \in ClientState /\ r \in Reply /\ Program(c) \in Seq(Tests)
      /\ cl[c].step \in 1 .. Len(Program(c)) /\ Len(Program(c)) \in Nat
  BY ProgramOK DEF Typed, CallState, Fits
<1>2. t \in Tests /\ t.lines \in 0 .. 2
  BY <1>1 DEF Tests
<1>3. /\ t.check \notin {"oneway", "one", "two"} /\ (t.check = "first" => t.lines = 0)
      /\ t.check = "user" =>
           /\ kind[c] = "static" /\ t.lines = 1 /\ cl[c].step + 1 = Len(Program(c))
           /\ Program(c)[cl[c].step + 1].check = "unknown"
           /\ r.kind = "value" => DropsException
      /\ t.check = "unknown" =>
           /\ kind[c] = "static" /\ t.lines = 1 /\ t.op = "testUnknownException"
           /\ DropsException => r.kind = "value"
  <2>1. CASE kind[c] = "static"
    <3>1. t \in StaticTests /\ Returned(t, r) /\ Program(c) \in Programs
      BY <2>1, StaticTest DEF AllObserved, Observed
    <3>2. t.check = "user" => /\ cl[c].step + 1 = Len(Program(c))
                              /\ Program(c)[cl[c].step + 1].check = "unknown"
      BY <1>1, <3>1 DEF Programs, UserBeforeLast
    <3>3. Suited(t) /\ t.check \notin {"oneway", "one", "two"}
      BY <3>1 DEF StaticTests
    <3>4. QED BY <2>1, <3>1, <3>2, <3>3 DEF Suited, Returned
  <2>2. CASE kind[c] = "dyn"
    <3>1. Program(c) = <<Test("echoULong", Repeats, "all", 1)>>
      BY <2>2 DEF Program, dyn_test
    <3>2. t.check = "all"
      BY <1>1, <3>1 DEF Test
    <3>3. QED BY <3>2
  <2>3. QED BY <2>1, <2>2
<1>4. PICK m \in ClientState :
        \/ Goes_On(cl[c], t, r, m) /\ After(cl[c], t, r, Program(c)) = m
        \/ Counted(cl[c], t, r, m) /\ After(cl[c], t, r, Program(c)) = Advance(m, Program(c))
  BY <1>1, <1>2, <1>3, AfterCases
<1>5. /\ cl[c].verdict = "none"
      /\ cl[c].lines = Before(c, cl[c].step - 1) \/ Missed(c, cl[c])
  BY DEF Tally
<1>6. Missed(c, cl[c]) => t.check = "unknown" /\ ~Good(cl[c], t, r)
  BY <1>3 DEF Missed, Good
<1>7. CASE Goes_On(cl[c], t, r, m) /\ After(cl[c], t, r, Program(c)) = m
  BY <1>5, <1>6, <1>7 DEF Goes_On, Tally
<1>8. CASE Counted(cl[c], t, r, m) /\ After(cl[c], t, r, Program(c)) = Advance(m, Program(c))
  <2>1. /\ m.pc = "test" /\ m.step = cl[c].step /\ m.verdict = "none"
        /\ m.lines = IF Printed(t, r) THEN cl[c].lines + t.lines ELSE cl[c].lines
        /\ ~Good(cl[c], t, r) /\ Printed(t, r) /\ t.lines > 0 => t.op \in m.failed
    BY <1>5, <1>8 DEF Counted
  <2>2. PICK n \in Nat : n = cl[c].step - 1 /\ cl[c].step = n + 1
    <3>1. cl[c].step - 1 \in Nat /\ cl[c].step = (cl[c].step - 1) + 1
      BY <1>1
    <3>2. QED BY <3>1
  <2>3. Lines(Program(c), n + 1) = Lines(Program(c), n) + t.lines /\ Lines(Program(c), n) \in Nat
    BY <1>2, <2>2, LinesNext
  <2>4. Before(c, n) + t.lines = Before(c, n + 1) /\ Before(c, n) \in Nat
    BY <1>2, <2>3 DEF Before
  <2>5. m.step \in 0 .. Len(Program(c))
    BY <1>1, <2>1
  <2>6. CASE Missed(c, cl[c])
    <3>1. Printed(t, r) /\ t.lines = 1 /\ "testUnknownException" \in m.failed
      BY <1>3, <1>6, <2>1, <2>6 DEF Printed
    <3>2. m.lines = (Before(c, n) - 1) + 1
      BY <2>1, <2>2, <2>6, <3>1 DEF Missed
    <3>3. m.lines = Before(c, m.step) - 1
      BY <2>1, <2>2, <2>4, <3>1, <3>2
    <3>4. QED BY <1>8, <2>1, <2>5, <2>6, <3>1, <3>3, AdvanceTally DEF Missed
  <2>7. CASE cl[c].lines = Before(c, n) /\ ~Printed(t, r)
    <3>1. t.check = "user" /\ r.kind = "value"
      BY <2>7 DEF Printed
    <3>2. m.lines = Before(c, m.step) - 1
      <4>1. m.lines = Before(c, n) /\ m.step = n + 1 /\ t.lines = 1
        BY <1>3, <2>1, <2>2, <2>7, <3>1
      <4>2. Before(c, n) + 1 = Before(c, n + 1)
        BY <2>4, <4>1
      <4>3. QED BY <2>4, <4>1, <4>2
    <3>3. QED BY <1>3, <1>8, <2>1, <2>5, <3>1, <3>2, AdvanceTally
  <2>8. CASE cl[c].lines = Before(c, n) /\ Printed(t, r)
    <3>1. m.lines = Before(c, m.step)
      BY <2>1, <2>2, <2>4, <2>8
    <3>2. QED BY <1>8, <2>1, <2>5, <3>1, AdvanceTally
  <2>9. QED BY <1>5, <2>2, <2>6, <2>7, <2>8
<1>9. QED BY <1>4, <1>7, <1>8

(* Those of all_functions_client, which prints one line.                   *)
LEMMA FunctionsTally ==
  ASSUME Typed, NEW c \in Clients, Tally(c, cl[c]), kind[c] = "functions",
         cl[c].pc = "test", call[c].phase = "replied", NEW r, r = call[c].rep,
         NEW t, t = Program(c)[cl[c].step]
  PROVE  Tally(c, After(cl[c], t, r, Program(c)))
<1>1. /\ cl[c] \in ClientState /\ r \in Reply /\ Program(c) \in Seq(Tests)
      /\ cl[c].step \in 1 .. 3 /\ Len(Program(c)) = 3 /\ t.check # "oneway"
      /\ Program(c)[1] = Test("oneway_void_proc", 1, "oneway", 0)
      /\ Program(c)[2] = Test("oneway_checker", 1, "one", 1)
      /\ Program(c)[3] = Test("oneway_checker", 1, "two", 1)
  BY ProgramOK DEF Typed, CallState, Fits
<1>2. /\ (t.check = "one" /\ cl[c].step = 2) \/ t.check = "two"
      /\ t.lines = 1
  <2>1. cl[c].step \in {1, 2, 3}
    BY <1>1
  <2>2. QED BY <1>1, <2>1 DEF Test
<1>3. cl[c].verdict = "none" /\ cl[c].lines = 0
  BY DEF Tally, Before, Missed
<1>4. PICK good \in BOOLEAN : good = Good(cl[c], t, r)
  BY DEF Good
<1>5. CASE t.check = "one" /\ good
  <2>1. After(cl[c], t, r, Program(c)) = Advance(cl[c], Program(c))
    BY <1>4, <1>5 DEF After
  <2>2. cl[c].step = 2 /\ 2 # 3
    BY <1>2, <1>5
  <2>3. PICK x : x = Advance(cl[c], Program(c))
    OBVIOUS
  <2>4. x.pc = "test" /\ x.lines = 0 /\ x.verdict = "none"
    BY <1>1, <1>3, <2>2, <2>3, AdvanceCases
  <2>5. QED BY <2>1, <2>3, <2>4 DEF Tally, Before, Missed
<1>6. CASE ~(t.check = "one" /\ good)
  <2>1. PICK o : o = output(cl[c], t, good)
    OBVIOUS
  <2>2. After(cl[c], t, r, Program(c)) = end_report(o)
    BY <1>2, <1>4, <1>6, <2>1 DEF After
  <2>3. t \in Tests
    <3>1. cl[c].step \in 1 .. Len(Program(c))
      BY <1>1
    <3>2. PICK p \in Seq(Tests), i \in 1 .. 3 :
            p = Program(c) /\ i = cl[c].step /\ i \in 1 .. Len(p)
      BY <1>1, <3>1
    <3>3. p[i] \in Tests
      BY <3>2
    <3>4. QED BY <3>2, <3>3
  <2>4. o \in ClientState /\ o.lines = 1
    BY <1>1, <1>2, <1>3, <2>1, <2>3, ReportTyped, OutputCases
  <2>5. PICK v : v = IF o.failed = {} THEN "passed" ELSE "failed"
    OBVIOUS
  <2>6. end_report(o) = [o EXCEPT !.pc = "done", !.exit = "success", !.verdict = v]
    BY <2>5 DEF end_report
  <2>7. /\ end_report(o).pc = "done" /\ end_report(o).verdict = v /\ end_report(o).lines = 1
        /\ end_report(o).failed = o.failed
    BY <2>4, <2>6 DEF ClientState
  <2>8. Printed_By(c) = 1
    BY DEF Printed_By
  <2>9. QED BY <2>2, <2>5, <2>7, <2>8 DEF Tally
<1>7. QED BY <1>5, <1>6

(* The replies.                                                            *)
LEMMA ReceiveTally ==
  ASSUME Typed, AllObserved, NEW c \in Clients, Tally(c, cl[c]), Receive(c) \/ Break(c)
  PROVE  Tally(c, cl'[c])
<1>1. /\ cl[c] \in ClientState /\ cl \in [Clients -> ClientState] /\ Fits(c, cl[c], call[c])
      /\ kind[c] \in {"static", "dyn", "functions", "other"}
  BY KindsOK DEF Typed
<1>2. Tally(c, Uncaught(c))
  <2>1. cl[c].pc # "done"
    BY <1>1 DEF Receive, Break, Fits
  <2>2. cl[c].verdict = "none"
    BY <1>1, <2>1 DEF Tally, ClientState
  <2>3. Uncaught(c).pc = "done" /\ Uncaught(c).verdict = "none"
    BY <1>1, <2>2 DEF Uncaught, ClientState
  <2>4. QED BY <2>3 DEF Tally
<1>3. CASE Break(c)
  BY <1>1, <1>2, <1>3 DEF Break
<1>4. CASE Receive(c)
  <2>1. PICK r, t : r = call[c].rep /\ t = Program(c)[cl[c].step]
    OBVIOUS
  <2>2. /\ call[c].phase = "replied"
        /\ cl'[c] = CASE kind[c] = "other"  -> cl[c]
                [] cl[c].pc = "narrow" ->
                     IF r.kind = "value" THEN Narrowed(c, r) ELSE Uncaught(c)
                [] OTHER -> IF Caught_By(t, r) THEN After(cl[c], t, r, Program(c))
                                               ELSE Uncaught(c)
    BY <1>1, <1>4, <2>1 DEF Receive
  <2>3. CASE kind[c] = "other"
    <3>1. cl[c].pc # "narrow"
      BY <1>1, <2>3 DEF Fits
    <3>2. QED BY <2>2, <2>3, <3>1
  <2>4. CASE cl[c].pc = "narrow"
    <3>1. kind[c] \in {"static", "functions"} /\ cl[c].verdict = "none" /\ kind[c] # "other"
      BY <1>1, <2>4 DEF Fits, Tally
    <3> SUFFICES ASSUME cl'[c] = Narrowed(c, r) PROVE Tally(c, cl'[c])
      BY <1>2, <2>2, <2>4, <3>1
    <3>2. CASE cl'[c].pc = "done" /\ cl'[c].verdict = cl[c].verdict
      BY <3>1, <3>2 DEF Tally
    <3>3. ASSUME NEW m \in ClientState, m.pc = "test", m.step = 0, m.verdict = "none",
                 m.lines = IF kind[c] = "static" THEN 1 ELSE 0,
                 cl'[c] = Advance(m, Program(c))
          PROVE  Tally(c, cl'[c])
      <4>1. Program(c) \in Seq(Tests) /\ Len(Program(c)) \in Nat
        BY <1>1, ProgramOK
      <4>2. CASE kind[c] = "static"
        <5>1. m.lines = Before(c, m.step)
          BY <3>3, <4>2, LinesStart DEF Before
        <5>2. m.step \in 0 .. Len(Program(c))
          BY <3>3, <4>1
        <5>3. QED BY <3>3, <4>2, <5>1, <5>2, AdvanceTally
      <4>3. CASE kind[c] = "functions"
        <5>1. Len(Program(c)) = 3 /\ m.step # 3
          BY <3>3, <4>3, ProgramOK
        <5>2. cl'[c].pc = "test" /\ cl'[c].lines = 0 /\ cl'[c].verdict = "none"
          BY <3>3, <4>1, <4>3, <5>1, AdvanceCases
        <5>3. QED BY <4>3, <5>2 DEF Tally, Before
      <4>4. QED BY <3>1, <4>2, <4>3
    <3>4. QED BY <1>1, <3>1, <3>2, <3>3, NarrowedCases
  <2>5. CASE kind[c] # "other" /\ cl[c].pc # "narrow"
    <3>1. cl[c].pc = "test"
      BY <1>1, <2>2, <2>5 DEF Fits, ClientState
    <3>2. Tally(c, After(cl[c], t, r, Program(c)))
      BY <1>1, <2>1, <2>2, <2>5, <3>1, AfterTally, FunctionsTally
    <3>3. QED BY <1>2, <2>2, <2>5, <3>2
  <2>6. QED BY <2>3, <2>4, <2>5
<1>5. QED BY <1>3, <1>4

LEMMA ClientTally ==
  ASSUME Typed, AllObserved, NEW c \in Clients, Tally(c, cl[c]), Start(c) \/ Step(c) \/ Break(c)
  PROVE  Tally(c, cl'[c])
<1>1. /\ cl[c] \in ClientState /\ cl \in [Clients -> ClientState] /\ Fits(c, cl[c], call[c])
      /\ kind[c] \in {"static", "dyn", "functions", "other"}
  BY KindsOK DEF Typed
<1>2. CASE Start(c)
  <2>1. cl[c].pc = "start" /\ cl[c].step = 1 /\ cl[c].lines = 0 /\ cl[c].verdict = "none"
    BY <1>1, <1>2 DEF Start, Fits, Tally
  <2>2. PICK x : x = cl'[c]
    OBVIOUS
  <2>3. /\ x.step = cl[c].step /\ x.lines = cl[c].lines /\ x.verdict = cl[c].verdict
        /\ x.pc \in {"done", "narrow"} \/ (x.pc = "test" /\ kind[c] \in {"dyn", "other"})
    BY <1>1, <1>2, <2>2 DEF Start, ClientState
  <2>4. kind[c] = "dyn" => Before(c, x.step - 1) = 0
    <3>1. x.step - 1 = 0
      BY <2>1, <2>3
    <3>2. QED BY <3>1, LinesStart DEF Before
  <2>5. QED BY <2>1, <2>2, <2>3, <2>4 DEF Tally
<1>3. CASE Send(c)
  <2>1. PICK t : t = Program(c)[cl[c].step]
    OBVIOUS
  <2>2. cl[c].pc = "test" /\ kind[c] # "other"
    BY <1>3 DEF Send
  <2>3. CASE t.check # "oneway"
    <3>1. cl' = cl
      BY <1>3, <2>1, <2>3 DEF Send
    <3>2. QED BY <3>1
  <2>4. CASE t.check = "oneway"
    <3>1. kind[c] = "functions"
      <4>1. cl[c].step \in 1 .. Len(Program(c))
        BY <1>1, <2>2 DEF Fits
      <4>2. dyn_test[1].check = "all"
        BY DEF dyn_test, Test
      <4>3. \A u \in StaticTests \cup {dyn_test[1]} : u.check # "oneway"
        BY <4>2 DEF StaticTests
      <4>4. kind[c] # "functions" => Program(c) \in Seq(StaticTests \cup {dyn_test[1]})
        BY <1>1, ProgramOK
      <4>5. QED BY <2>1, <2>4, <4>1, <4>3, <4>4
    <3>2. cl' = [cl EXCEPT ![c].step = @ + 1, ![c].left = 1]
      BY <1>3, <2>1, <2>4 DEF Send
    <3>3. cl'[c].pc = "test" /\ cl'[c].lines = cl[c].lines /\ cl'[c].verdict = cl[c].verdict
      BY <1>1, <2>2, <3>2 DEF ClientState
    <3>4. QED BY <2>2, <3>1, <3>3 DEF Tally, Before, Missed
  <2>5. QED BY <2>3, <2>4
<1>4. CASE Send_Other(c)
  <2>1. cl[c].pc = "test" /\ kind[c] = "other"
    BY <1>4 DEF Send_Other
  <2>2. cl'[c].pc \in {"test", "done"} /\ cl'[c].verdict = cl[c].verdict
    BY <1>1, <1>4, <2>1 DEF Send_Other, ClientState
  <2>3. QED BY <2>1, <2>2 DEF Tally
<1>5. CASE Receive(c) \/ Break(c)
  BY <1>5, ReceiveTally
<1>6. QED BY <1>2, <1>3, <1>4, <1>5 DEF Step

(* A verdict is printed after every line of the program but for the one of *)
(* testException against a dynamic server on TAO, is then FAILED, and      *)
(* agrees with the checks, for any number of clients, whatever sections    *)
(* they are built with and whatever breaks.  It rests on the replies: the  *)
(* two exception tests both return against such a server, or neither does, *)
(* and the second is the last check of the program.                        *)
THEOREM VerdictCorrect == Spec => []VerdictComplete
<1>1. Init => AllTally
  <2> SUFFICES ASSUME Init, NEW c \in Clients PROVE Tally(c, cl[c])
    BY DEF AllTally
  <2>1. cl[c].pc = "start" /\ cl[c].lines = 0 /\ cl[c].verdict = "none"
    BY DEF Init, Fresh
  <2>2. QED BY <2>1 DEF Tally
<1>2. ASSUME Typed, AllObserved, AllTally, [Next]_vars PROVE AllTally'
  <2>1. UNCHANGED <<server, kind>>
    BY <1>2 DEF Next, vars, Main, Activate_Object, Print_IOR, Remove_Ref, Run, Fatal,
           unchangedByServer, Ended, Serve, Dispatch, Complete, Oneway_Begin, Oneway_End, Start,
           Step, Send, Send_Other, Receive, Break, unchangedByClient
  <2>2. \A c \in Clients : Tally(c, cl'[c])
    <3>1. CASE UNCHANGED cl
      BY <1>2, <3>1 DEF AllTally
    <3>2. ASSUME NEW c \in Clients, Start(c) \/ Step(c) \/ Break(c)
          PROVE  \A d \in Clients : Tally(d, cl'[d])
      <4>1. \A d \in Clients : d # c => cl'[d] = cl[d]
        BY <1>2, <3>2, ClientEffect
      <4>2. Tally(c, cl'[c])
        BY <1>2, <3>2, ClientTally DEF AllTally
      <4>3. QED BY <1>2, <4>1, <4>2 DEF AllTally
    <3>3. QED
      BY <1>2, <3>1, <3>2 DEF Next, vars, Main, Activate_Object, Print_IOR, Remove_Ref, Run,
                        Fatal, unchangedByServer, Ended, Serve, Dispatch, Complete, Oneway_Begin,
                        Oneway_End
  <2>3. ASSUME NEW c \in Clients PROVE Tally(c, cl[c])'
    <3>1. Program(c)' = Program(c)
      BY <2>1 DEF Program
    <3>2. Printed_By(c)' = Printed_By(c) /\ DropsException' = DropsException
      BY <2>1, <3>1 DEF Printed_By, Lines, DropsException
    <3>3. PICK x : x = cl'[c]
      OBVIOUS
    <3>4. Before(c, cl[c].step - 1)' = Before(c, x.step - 1)
      BY <2>1, <3>1, <3>3 DEF Before, Lines
    <3>5. Missed(c, cl[c])' <=> Missed(c, x)
      BY <2>1, <3>1, <3>2, <3>3, <3>4 DEF Missed
    <3>6. Tally(c, x)
      BY <2>2, <3>3
    <3>7. QED BY <2>1, <3>2, <3>3, <3>4, <3>5, <3>6 DEF Tally
  <2>4. QED BY <2>3 DEF AllTally
<1>3. AllTally => VerdictComplete
  BY DEF AllTally, Tally, VerdictComplete
<1>4. QED BY <1>1, <1>2, <1>3, TypedInv, AllObservedInv, PTL DEF Spec
============================================================================
