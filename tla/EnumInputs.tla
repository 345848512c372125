----------------------------- MODULE EnumInputs ------------------------------
(***************************************************************************)
(* Enum bodies of a few statements that can conflict in every pairwise     *)
(* way, with numbers at both ends of the 32-bit range.                     *)
(***************************************************************************)
EXTENDS Integers

Value(name, number, options) ==
    [kind |-> "value", name |-> name, number |-> number, options |-> options]
Setting(name, constant) == [kind |-> "option", name |-> name, constant |-> constant]
ReservedFrom(first, last) == [kind |-> "reserved", first |-> first, last |-> last]
Name(name) == [kind |-> "reserved_name", name |-> name]

(* INT32_MAX is 3 here.                                                    *)
Conflicting ==
    { Value("A", 0, {}), Value("A", 1, {}), Value("B", 0, {"deprecated"}), Value("B", -4, {}),
      Value("C", 3, {}), Value("C", 4, {}), Value("D", -5, {}), Value("D", 2, {"packed"}),
      Setting("allow_alias", "true"), Setting("allow_alias", "false"), Setting("allow_alias", "other"),
      Setting("deprecated", "other"),
      ReservedFrom(0, 0), ReservedFrom(-4, -1), ReservedFrom(1, 3), ReservedFrom(-1, 1), ReservedFrom(2, 1), ReservedFrom(3, 4),
      Name("A"), Name("C") }
=============================================================================
