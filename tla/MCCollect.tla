------------------------------- MODULE MCCollect -------------------------------
\* Two keys: results_per_search (1) and request_delay_seconds (2); two boards.
EXTENDS Collect

CONSTANTS a1, a2, r1, indeed, linkedin

MCKeys == {1, 2}
MCDefault == <<1, 1>>
MCForms == {<<1, 0>>, <<2, 1>>}
\* One search, two searches that share a board, no enabled profile.
MCEnabled == {<<>>, << <<indeed, linkedin>> >>, << <<indeed>>, <<indeed, linkedin>> >>}
MCSearches == << <<linkedin, indeed>> >>
================================================================================
