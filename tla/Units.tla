-------------------------------- MODULE Units --------------------------------
(***************************************************************************)
(* Units and sizes: src/pghrep/internal/fmtutils/utils.go and the template *)
(* functions of reportutils.go that use them.                              *)
(*                                                                         *)
(* A unit is the number it starts with and the name that follows: "8kB" is *)
(* [n |-> 8, of |-> "kB"], "kB" has NoNumber.  A formatted size is the     *)
(* number that is printed, in 1 / 10^precision, and the index of its unit  *)
(* (0 for bytes, 1 for KiB, ...).                                          *)
(***************************************************************************)
EXTENDS Integers, FiniteSets, Sequences

\* strconv failed, or there is nothing to parse.
NoNumber == -1000

ByteUnits == <<"bytes", "kB", "MB", "GB", "TB", "PB", "EB", "ZB", "YB">>

\* 1024 to the power k: the bytes of a KiB, a MiB, ...
Ki(k) ==
  LET ki[i \in 0 .. k] == IF i = 0 THEN 1 ELSE 1024 * ki[i - 1]
  IN  ki[k]

\* The number of bytes of a unit; -1 if it is not one of bytes.
GetUnit(unit) ==
  IF \A i \in DOMAIN ByteUnits : ByteUnits[i] # unit.of THEN -1
  ELSE LET i == CHOOSE j \in DOMAIN ByteUnits : ByteUnits[j] = unit.of
       IN (IF unit.n = NoNumber THEN 1 ELSE unit.n) * Ki(i - 1)

\* The smallest number of 1 / 10^places that is not below num / den.
RoundUp(num, den, places) == (num * 10 ^ places + den - 1) \div den

\* The unit is chosen at powers of 1000, the number counted in powers of 1024.
UnitIndex(n) ==
  LET thousands[i \in 0 .. 8] == IF i = 0 THEN n ELSE thousands[i - 1] \div 1000
  IN  Cardinality({i \in 1 .. 8 : thousands[i] > 0})

\* Seeded fault: the number is counted in powers of 1000, too.
ByteFormatDecimal(n, precision) ==
  [number |-> RoundUp(n, 1000 ^ UnitIndex(n), precision), unit |-> UnitIndex(n)]

ByteFormat(n, precision) ==
  [number |-> RoundUp(n, Ki(UnitIndex(n)), precision), unit |-> UnitIndex(n)]

-----------------------------------------------------------------------------
NoSize == [number |-> NoNumber, unit |-> 0]

\* A setting in its unit, as the tables of settings show it.
UnitValue(value, unit) ==
  IF unit.of = "" \/ value = NoNumber \/ value < 0 \/ GetUnit(unit) = -1
  THEN NoSize
  ELSE ByteFormat(value * GetUnit(unit), 2)

\* The same value in bytes, or the bare number if it has no unit.
RawIntUnitValue(value, unit) ==
  IF value = NoNumber \/ value < 0 THEN -1
  ELSE IF unit.of = "" THEN value
  ELSE IF GetUnit(unit) = -1 THEN -1
  ELSE value * GetUnit(unit)
=============================================================================
