-------------------------------- MODULE Draws --------------------------------
(***************************************************************************)
(* dsdgen: how many random numbers the functions that make a column take   *)
(* from the column's stream.  A builder's draws are a bag of columns.      *)
(***************************************************************************)
EXTENDS Integers, SequencesExt, Bags

(* n numbers from the stream of each column.                               *)
Take(n, columns) == [c \in columns |-> n]

(* mk_join(): a date is a year and a day, a time an hour and a second, a   *)
(* catalog page a type and a page, and any other row one number.           *)
Join2(columns) == Take(2, columns)

Join1(columns) == Take(1, columns)

(* nullSet(): "burn the RNG calls".                                        *)
NullSet(column) == Take(2, {column})

(* mk_address()                                                            *)
Address(column) == Take(7, {column})

(* gen_charset(): a length, and as many characters as there could be.      *)
Charset(most, column) == Take(1 + most, {column})

(* genrand_email(): a domain, a length, and gen_charset()'s length and 20  *)
(* characters, of which it draws all and keeps some.                       *)
Email(column) == Take(2 + 1 + 20, {column})

(* The sentence forms with the numbers they take, one and one a word, and  *)
(* how short they can come out (those with fewer numbers and no shorter    *)
(* are left out).                                                          *)
Sentences == {<<4, 7>>, <<5, 10>>, <<6, 14>>, <<7, 16>>, <<8, 19>>, <<9, 23>>, <<10, 26>>, <<11, 30>>}

(* gen_text(): the most numbers that sentences of length 1, 2 ... in all   *)
(* take: when one is not the last, a space follows.                        *)
MostWords ==
  FoldLeft(LAMBDA most, length :
             Append(most, Max({IF length > s[2] + 1 THEN s[1] + most[length - s[2] - 1] ELSE s[1] :
                                 s \in Sentences})),
           <<>>, [length \in 1 .. 200 |-> length])

(* A length, and the sentences for it.                                     *)
Text(most, column) == Take(1 + MostWords[most], {column})

(* set_pricing() of a sale: quantity, cost, markup, discount, coupon and   *)
(* its use, shipping and tax.                                              *)
SalesPricing(column) == Take(8, {column})

(* Of a return: shipping, cash, credit and fee, and before it the quantity.*)
ReturnsPricing(column) == Take(1 + 4, {column})

(* It knows no return of a refresh set: nothing but the quantity is drawn. *)
RefreshReturnsPricing(column) == Take(1, {column})

=============================================================================
