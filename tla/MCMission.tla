------------------------------- MODULE MCMission ------------------------------
(* A mission at the resolution of the reports.                               *)
EXTENDS Mission

MCStartHeadings == {870, 900, 940}
MCDrifts == {-10, 40}
MCRates == {3, 5}

\* The runs are within the budget the theorem is about.
ASSUME WithinBudget == Budget
===============================================================================
