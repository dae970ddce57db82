----------------------------- MODULE MCDivision -----------------------------
(***************************************************************************)
(* Division in module Numbers for TLC, with digits of the length at which  *)
(* an estimated digit of the quotient can be too small.                    *)
(***************************************************************************)
EXTENDS Numbers

\* bnpDivRemTo: "divide this by m, quotient and remainder to q, r", whatever the
\* numbers are.
DividesRight == [][DivisionRight]_vars
=============================================================================
