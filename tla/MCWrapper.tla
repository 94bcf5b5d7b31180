------------------------------ MODULE MCWrapper ------------------------------
(* wrapper.py on an input file of three countries, one of which lists two  *)
(* hostnames, and wrapper_delta.py on two input files with the same lines. *)
EXTENDS Wrapper, Sequences

CL == INSTANCE CountryList

Line(c, h) == [code |-> c, host |-> h]

MCInput == <<Line("AT", 1), Line("BE", 2), Line("BE", 3), Line("CH", 4)>>
MCCountries == CL!Countries(MCInput)
MCN == Len(MCCountries)
MCHosts == [c \in 0 .. MCN - 1 |-> Len(MCCountries[c + 1].hosts)]

\* wrapper_delta.py with the first country in a list of its own.
MCDelta == CL!Finished(<<1, 2>>)
ASSUME SameCountries ==
    CL!Countries(SubSeq(MCInput, 1, 1)) \o CL!Countries(SubSeq(MCInput, 2, 4)) = MCCountries

MCSkippedSets == {{}, MCDelta}
MCFirstNumber == [S \in MCSkippedSets |-> IF S = {} THEN 0 ELSE 46]
=============================================================================
