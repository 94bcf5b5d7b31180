----------------------------- MODULE InputFiles ------------------------------
(***************************************************************************)
(* Reading the input files: one file in wrapper.py, number_of_input_files  *)
(* in wrapper_delta.py, line by line.  Each file may hold any lines, also  *)
(* none, in any order, and a blank line.                                   *)
(***************************************************************************)
EXTENDS CountryList, FiniteSets

\* country_list and length_of_each_input before the first file.
NothingRead == [ok |-> TRUE, country_list |-> <<>>, length_of_each_input |-> <<>>]

\* line.split() of a blank line is empty and helper[0] raises IndexError.
IsBlank(line) == line.code = NoCode

ReadFile(st, file) ==
    IF ~st.ok \/ \E k \in DOMAIN file : IsBlank(file[k]) THEN [st EXCEPT !.ok = FALSE]
    ELSE LET list == Countries(file)
         IN [st EXCEPT !.country_list = @ \o list, !.length_of_each_input = Append(@, Len(list))]

ReadFiles(files) == FoldLeft(ReadFile, NothingRead, files)

-----------------------------------------------------------------------------

Code(lines) == {lines[k].code : k \in DOMAIN lines}

HostsOf(lines, c) ==
    LET mine == SelectSeq(lines, LAMBDA l : l.code = c)
    IN  [k \in DOMAIN mine |-> mine[k].host]

(* The file is sorted by country code: the lines of a code are together. *)
Sorted(lines) ==
    \A k, l, m \in DOMAIN lines :
        k < l /\ l < m /\ lines[k].code = lines[m].code
            => lines[l].code = lines[k].code

(* What the countries of the files should be, the files given by the codes *)
(* of their lines (NoCode is a blank line), each line with a host of its   *)
(* own.  "builds pairs between two countries from different input lists    *)
(* but no pairs between countries from the same input list"                *)
ReadRight(codes) ==
    LET files == [f \in DOMAIN codes |-> [k \in DOMAIN codes[f] |->
                                             [code |-> codes[f][k], host |-> <<f, k>>]]]
        lines == FlattenSeq(files)
        r == ReadFiles(files)
        base(f) == FoldLeft(+, 0, SubSeq(r.length_of_each_input, 1, f - 1))
        entries(f) == SubSeq(r.country_list, base(f) + 1, base(f) + r.length_of_each_input[f])
        index == 0 .. Len(r.country_list) - 1
        origin(a) == CHOOSE f \in DOMAIN files : base(f) <= a /\ a < base(f) + r.length_of_each_input[f]
    IN IF NoCode \in Code(lines) THEN ~r.ok
       ELSE /\ r.ok
            /\ FlattenSeq([k \in DOMAIN r.country_list |-> r.country_list[k].hosts])
                  = [k \in DOMAIN lines |-> lines[k].host]
            /\ \A f \in DOMAIN files :
                  IF files[f] = <<>> THEN entries(f) = <<NoCountry>>
                  ELSE /\ \A k \in DOMAIN entries(f) : entries(f)[k].hosts # <<>>
                       /\ Sorted(files[f]) =>
                            /\ Len(entries(f)) = Cardinality(Code(files[f]))
                            /\ \A c \in Code(files[f]) : \E k \in DOMAIN entries(f) :
                                  entries(f)[k] = [code |-> c, hosts |-> HostsOf(files[f], c)]
            /\ Finished(r.length_of_each_input)
                  = {p \in index \X index : origin(p[1]) = origin(p[2])}

=============================================================================
