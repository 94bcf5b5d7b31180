----------------------------- MODULE CountryList -----------------------------
(***************************************************************************)
(* How wrapper.py and wrapper_delta.py turn the lines of their input files *)
(* into country_list, and how wrapper_delta.py marks the pairs that it     *)
(* does not measure.                                                       *)
(*                                                                         *)
(* A line is a record of a country code and a hostname; the coordinates    *)
(* travel with the hostname and are left out.  An entry of country_list,   *)
(* [code, [hostname, ...], [hostname, ...], ...] in the code, is a record  *)
(* of the code and the sequence of hostnames; the empty list is NoCountry. *)
(***************************************************************************)
EXTENDS Integers, Sequences, SequencesExt

NoCode == " "
NoCountry == [code |-> NoCode, hosts |-> <<>>]

(* The local variables of the loop over the lines of a file. *)
StartOfFile ==
    [country_code |-> NoCode, country |-> NoCountry, list |-> <<>>]

(* A line with the code of the line before adds a hostname, any other line *)
(* starts a country.                                                       *)
AddLine(st, line) ==
    IF st.country_code = line.code
    THEN [st EXCEPT !.country.hosts = Append(@, line.host)]
    ELSE [country_code |-> line.code,
          country      |-> [code |-> line.code, hosts |-> <<line.host>>],
          list         |-> Append(st.list, st.country)]

(* country_list[1:] + [country]: the empty list of the start is removed    *)
(* and the last country added.                                             *)
CloseFile(st) == Append(SubSeq(st.list, 2, Len(st.list)), st.country)

(* The entries that a whole file gives. *)
Countries(file) == CloseFile(FoldLeft(AddLine, StartOfFile, file))

(* Fault: base is not advanced by the length of the input. *)
FinishedSameBase(lengths) ==
    FoldLeft(LAMBDA acc, length :
                 LET block == acc.base .. acc.base + length - 1
                 IN  [base  |-> acc.base + 1,
                      cells |-> acc.cells \cup (block \X block)],
             [base |-> 0, cells |-> {}],
             lengths).cells

(* The cells that the loops over length_of_each_input set to 5. *)
Finished(lengths) ==
    FoldLeft(LAMBDA acc, length :
                 LET block == acc.base .. acc.base + length - 1
                 IN  [base  |-> acc.base + length,
                      cells |-> acc.cells \cup (block \X block)],
             [base |-> 0, cells |-> {}],
             lengths).cells

=============================================================================
