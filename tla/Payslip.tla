------------------------------ MODULE Payslip ------------------------------
(***************************************************************************)
(* The arithmetic of a payslip (services/hr/app/payroll.py): contribution  *)
(* up to a ceiling, standard deduction, income tax by brackets, rounding   *)
(* half up to whole francs.  Rates are in parts of Scale (the columns have *)
(* four decimals), amounts before rounding in parts of Scale ^ 3 of a      *)
(* franc.  The steps go through the salaries, which are inputs.            *)
(***************************************************************************)
EXTENDS Integers, Sequences, SequencesExt, FiniteSetsExt

CONSTANTS
    Scale,      \* the parts of a rate
    RateTables, \* the schedules of rates: [ceiling, employee, employer, deduction, brackets]
    MaxGross    \* bound: the highest salary

VARIABLES
    rates,      \* the schedule in use
    gross       \* the salary

payslipVars == <<rates, gross>>

Cube == Scale * Scale * Scale

\* A sequence of brackets [upTo, rate]; upTo = -1 stands for "and above".
Ascending(b) ==
    /\ b # <<>> /\ b[Len(b)].upTo = -1
    /\ \A i \in 1..(Len(b) - 1) :
           /\ b[i].upTo > 0
           /\ \A j \in 1..(i - 1) : b[j].upTo < b[i].upTo
\* No rate above one, and brackets in order: nothing in the code checks this.
PlausibleRates(s) ==
    /\ s.ceiling \in Nat /\ s.brackets \in Seq([upTo : Int, rate : Int]) /\ Ascending(s.brackets)
    /\ {s.employee, s.employer, s.deduction} \cup {s.brackets[i].rate : i \in 1..Len(s.brackets)}
           \subseteq 0..Scale

ASSUME RatesAssumption ==
    Scale \in Nat \ {0} /\ MaxGross \in Nat /\ \A s \in RateTables : PlausibleRates(s)

PayslipInit == rates \in RateTables /\ gross = 0

Smaller(x, y) == IF x < y THEN x ELSE y

RoundXaf(x, unit) == (2 * x + unit) \div (2 * unit)

\* Variant: the whole base at the rate of the bracket it falls into.
TaxWhole(base, unit, brackets) ==
    base * brackets[CHOOSE i \in 1..Len(brackets) :
                        /\ brackets[i].upTo * unit >= base \/ brackets[i].upTo = -1
                        /\ \A j \in 1..(i - 1) : brackets[j].upTo * unit < base].rate

\* The loop over the brackets: each taxes the slice between the one before and its own
\* bound.  base is in parts of unit, the tax in parts of unit * Scale.
ApplyIrppBrackets(base, unit, brackets) ==
    LET Slice(acc, b) ==
            LET upper == IF b.upTo = -1 THEN base ELSE b.upTo * unit
                amount == Smaller(base, upper) - acc.lower
            IN  IF acc.done \/ base <= acc.lower THEN [acc EXCEPT !.done = TRUE]
                ELSE [tax |-> acc.tax + (IF amount > 0 THEN amount * b.rate ELSE 0),
                      lower |-> upper, done |-> b.upTo = -1]
    IN  FoldLeft(Slice, [tax |-> 0, lower |-> 0, done |-> FALSE], brackets).tax

\* Contributions in parts of Scale, taxable base of its square, tax of its cube.
Cnps(g, rate) == Smaller(g, rates.ceiling) * rate
TaxableBase(g) == (g * Scale - Cnps(g, rates.employee)) * (Scale - rates.deduction)
Irpp(g) == ApplyIrppBrackets(TaxableBase(g), Scale * Scale, rates.brackets)

CalculatePayslip(g) ==
    LET cnps == RoundXaf(Cnps(g, rates.employee), Scale)
        irpp == RoundXaf(Irpp(g), Cube)
    IN  [gross |-> g, cnps |-> cnps, employer |-> RoundXaf(Cnps(g, rates.employer), Scale),
         base |-> RoundXaf(TaxableBase(g), Scale * Scale), irpp |-> irpp, net |-> g - cnps - irpp]

Raise ==
    /\ gross < MaxGross
    /\ gross' = gross + 1
    /\ UNCHANGED rates

PayslipNext == Raise
PayslipSpec == PayslipInit /\ [][PayslipNext]_payslipVars

-----------------------------------------------------------------------------
(* Properties *)

PayslipTypeOK == rates \in RateTables /\ gross \in 0..MaxGross

\* The part of the base between two bounds, by its definition.
Between(base, lower, upper) == IF base <= lower THEN 0 ELSE Smaller(base, upper) - lower
BoundOf(base, unit, brackets, i) ==
    IF i = 0 THEN 0 ELSE IF i = Len(brackets) THEN base ELSE brackets[i].upTo * unit
TaxByDefinition(base, unit, brackets) ==
    LET slice == [i \in 1..Len(brackets) |-> brackets[i].rate *
                     Between(base, BoundOf(base, unit, brackets, i - 1),
                                   BoundOf(base, unit, brackets, i))]
    IN  MapThenSumSet(LAMBDA i : slice[i], 1..Len(brackets))

\* Net pay is between nothing and the salary, and within a franc of what contribution
\* and a tax on each slice at its own rate leave, unrounded (calculate_payslip rounds
\* the contribution, the base and the tax each for itself).
NetIsFair ==
    LET net == CalculatePayslip(gross).net
        exact == gross * Cube - Cnps(gross, rates.employee) * Scale * Scale
                     - TaxByDefinition(TaxableBase(gross), Scale * Scale, rates.brackets)
    IN  /\ 0 <= net /\ net <= gross
        /\ net * Cube - exact \in -Cube..Cube

\* Who earns a franc more takes home at most a franc less (two roundings), at the
\* ceiling and at the bounds of the brackets, too.
RaiseNeverHurts ==
    [][CalculatePayslip(gross').net >= CalculatePayslip(gross).net - 1]_payslipVars
=============================================================================
