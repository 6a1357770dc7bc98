------------------------------ MODULE AllTypes ------------------------------
(***************************************************************************)
(* The servants of the CORBA interoperability tests: the operations of the *)
(* IDL interface all_types as the C++ implementation all_types_i and the   *)
(* two dynamic implementations MyDynImpl execute them.  A value that is    *)
(* echoed is the token "arg": what is sent is told apart only from what is *)
(* not what was sent.                                                      *)
(***************************************************************************)
EXTENDS Naturals

(* Replies of an upcall, as the skeleton sends them to the client.         *)
Value(v)  == [kind |-> "value",  val |-> v,      num |-> 0]
Number(n) == [kind |-> "value",  val |-> "num",  num |-> n]
User(n)   == [kind |-> "user",   val |-> "my_exception", num |-> n]
System(e) == [kind |-> "system", val |-> e,      num |-> 0]
NoReply   == [kind |-> "none",   val |-> "none", num |-> 0]

(* Operations that return their argument: by value, as a new copy that the *)
(* skeleton frees, as a duplicated reference, or as the very argument.     *)
ByValue == {"echoBoolean", "echoShort", "echoLong", "echoUShort",
            "echoULong", "echoFloat", "echoDouble", "echoChar", "echoOctet",
            "echoColor"}
ByCopy == {"echoString", "echoUsequence", "echoBsequence",
           "echoUnionSequence", "echoArray", "echoMatrix", "echoBigMatrix",
           "echoStruct", "echoNestedStruct", "echoBoundedStr"}
Composite == {"echoArrayStruct", "echoUnion", "echoNoMemberUnion",
              "echoMoney", "echoULLong", "echoWChar"}
Duplicated == {"echoObject", "echoOtherObject"}
Borrowed == {"echoAny", "echoUnionEnumSwitch", "echoRef",
             "echoOtherAllTypes"}
EchoOps == ByValue \cup ByCopy \cup Composite \cup Duplicated \cup Borrowed

(* Operations left empty in the C++ servant.                               *)
NullResult == {"echoWString", "echoBoundedWStr", "echoRainbow",
               "echoNestedArray", "echoSixteenKb"}
NoEffect == {"testSystemException", "StopServer"}

Attributes == {"get_myColor", "set_myColor", "Counter"}
Exceptions == {"testException", "testUnknownException"}
Interface == EchoOps \cup NullResult \cup NoEffect \cup Attributes
               \cup Exceptions

(* The argument of testException in the client, echoed by the exception.   *)
SentInfo == 42

testException == User(SentInfo)

(* throw 666: the skeleton reports an exception it does not know.          *)
testUnknownException == System("UNKNOWN")

(* The generated skeleton of all_types answers _is_a itself.  For Counter, *)
(* n is the value that ++tmp stored; color is tmpColor.                    *)
all_types_i(op, color, n) ==
  CASE op = "_is_a"                -> Value("TRUE")
    [] op \in EchoOps              -> Value("arg")
    [] op \in NullResult           -> Value("null")
    [] op \in NoEffect             -> Value("void")
    [] op = "get_myColor"          -> Value(color)
    [] op = "set_myColor"          -> Value("void")
    [] op = "Counter"              -> Number(n)
    [] op = "testException"        -> testException
    [] op = "testUnknownException" -> testUnknownException

(* Operations whose reply carries nothing when it is not an exception.     *)
Void == NoEffect \cup Exceptions \cup {"set_myColor"}

(* A system exception caught by invoke goes into the request, except where *)
(* the build is for TAO: an ordinary reply without result is sent then.    *)
(* The stub of a void operation returns as if it had been executed; that   *)
(* of another operation fails to read the result.                          *)
Caught(orb, op, e) ==
  IF orb # "TAO" THEN System(e)
  ELSE IF op \in Void THEN Value("void") ELSE System("MARSHAL")

(* The type names that _is_a accepts.                                      *)
KnownTypes == {"IDL:all_types:1.0", "IDL:omg.org/CORBA/Object:1.0", ""}

(* MyDynImpl::invoke of all_types_dynserver.cc: _is_a and echoULong.       *)
invoke(op, type_id, orb) ==
  CASE op = "_is_a"     -> Value(IF type_id \in KnownTypes THEN "TRUE"
                                                           ELSE "FALSE")
    [] op = "echoULong" -> Value("arg")
    [] OTHER            -> Caught(orb, op, "BAD_OPERATION")

(* MyDynImpl::invoke of dynserver_mt_TAO.cc, which exists for TAO only.    *)
invoke_mt(op, type_id) == invoke(op, type_id, "TAO")
=============================================================================
