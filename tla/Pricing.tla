------------------------------ MODULE Pricing ------------------------------
(***************************************************************************)
(* The amounts of a line item and of its return (pricing.c), computed from *)
(* a few drawn ones with the decimals of decimal.c: a number and how many  *)
(* of its digits are behind the point.  A product is cut off where the     *)
(* longer of its factors ends, so that a cent may be lost at every step,   *)
(* and the amounts are meant to add up nevertheless.                       *)
(***************************************************************************)
EXTENDS Integers, FiniteSetsExt

CONSTANTS
  Quantities,  \* what may be drawn: of quantities,
  Costs,       \* of wholesale costs, in cents,
  Markups,     \* in hundredths, as the next ones,
  Fractions,   \* from 0 to 1: discounts, coupons, what a return gives back in cash or credit
  Shippings,   \* from 0 to 0.50,
  TaxRates,    \* from 0 to 0.09,
  Fees         \* and fees, in cents

ASSUME PricingAssumption ==
  /\ Quantities \subseteq 1 .. 100 /\ Costs \subseteq 100 .. 10000 /\ Markups \subseteq 0 .. 200
  /\ Fractions \subseteq 0 .. 100 /\ Shippings \subseteq 0 .. 50 /\ TaxRates \subseteq 0 .. 9
  /\ Fees \subseteq 50 .. 10000

VARIABLES
  sale,   \* ds_pricing_t of the line item, <<>> before there is one
  refund   \* and of its return

pricingVars == <<sale, refund>>

-----------------------------------------------------------------------------
Decimal(number, precision) == [number |-> number, precision |-> precision]

itodec(n) == Decimal(n, 0)
strtodec(cents) == Decimal(cents, 2)

\* genrand_decimal(): the digits of its bounds, which are two.
genrand_decimal(values) == {strtodec(v) : v \in values}

\* Dividing integers drops the rest, whatever the sign.
DropDigits(n, digits) == IF n < 0 THEN -((-n) \div 10 ^ digits) ELSE n \div 10 ^ digits

(* Wrong variant of decimal_t_op: the last digit of a product is rounded.  *)
decimal_t_opRounding(op, d1, d2) ==
  LET p == Max({d1.precision, d2.precision})
      behind == d1.precision + d2.precision - p
  IN  CASE op = "+" -> Decimal(d1.number + d2.number, p)
        [] op = "-" -> Decimal(d1.number - d2.number, p)
        [] op = "*" -> Decimal(DropDigits(d1.number * d2.number + (10 ^ behind) \div 2, behind), p)
        [] op = "/" -> Decimal((d1.number * 10 ^ (2 * p - d1.precision)) \div (d2.number * 10 ^ (p - d2.precision)), p)

\* The precision of a sum, a product or a quotient.
Longer(d1, d2) == Max({d1.precision, d2.precision})

\* A number with digits behind the point.
AtPoint(d, digits) == d.number * 10 ^ (digits - d.precision)

\* Sums do not care where the point is; quotients are of a small percentage
\* and 100.00, exact as floats.
decimal_t_op(op, d1, d2) ==
  CASE op = "+" -> Decimal(d1.number + d2.number, Longer(d1, d2))
    [] op = "-" -> Decimal(d1.number - d2.number, Longer(d1, d2))
    [] op = "*" -> Decimal(DropDigits(d1.number * d2.number, d1.precision + d2.precision - Longer(d1, d2)),
                           Longer(d1, d2))
    [] op = "/" -> Decimal(AtPoint(d1, 2 * Longer(d1, d2)) \div AtPoint(d2, Longer(d1, d2)),
                           Longer(d1, d2))

Added(d1, d2) == decimal_t_op("+", d1, d2)
Less(d1, d2) == decimal_t_op("-", d1, d2)
Product(d1, d2) == decimal_t_op("*", d1, d2)
Ratio(d1, d2) == decimal_t_op("/", d1, d2)
Percent(pct) == Ratio(itodec(pct), strtodec(10000))

-----------------------------------------------------------------------------
\* Both kinds of pricing end with these.
Totals(paid, shipping, tax, wholesale) ==
  LET inc_ship == Added(paid, shipping) IN
  [net_paid |-> paid, ext_ship_cost |-> shipping, ext_tax |-> tax, ext_wholesale_cost |-> wholesale,
   net_paid_inc_ship |-> inc_ship, net_paid_inc_tax |-> Added(paid, tax),
   net_paid_inc_ship_tax |-> Added(inc_ship, tax), net_profit |-> Less(paid, wholesale)]

\* set_pricing() of a sale, of any channel; the coupon is 0 in four of five.
SalesAmounts(quantity, wholesale, markup, discount, coupon, shipping, tax) ==
  LET n == itodec(quantity)
      list == Product(wholesale, Added(markup, strtodec(100)))
      price == Product(list, Less(strtodec(100), discount))
      ext_list == Product(list, n)
      ext_sales == Product(price, n)
      coupon_amt == Product(ext_sales, coupon)
      paid == Less(ext_sales, coupon_amt)
  IN  [quantity |-> quantity, wholesale_cost |-> wholesale, list_price |-> list, sales_price |-> price,
       ext_list_price |-> ext_list, ext_sales_price |-> ext_sales,
       ext_discount_amt |-> Less(ext_list, ext_sales), coupon_amt |-> coupon_amt,
       tax_pct |-> tax,
       totals |-> Totals(paid, Product(Product(list, shipping), n),
                         Product(paid, tax), Product(n, wholesale))]

\* set_pricing() of a return, of a copy of the sale's: the customer gets the
\* price back, without regard to a coupon, part in cash, part of the rest
\* charged back, the rest as credit.
ReturnsAmounts(r, quantity, shipping, cashPct, creditPct, fee) ==
  LET n == itodec(quantity)
      paid == Product(r.sales_price, n)
      cash == Product(Percent(cashPct), paid)
      charge == Product(Less(paid, cash), Percent(creditPct))
      credit == Less(Less(paid, charge), cash)
      totals == Totals(paid, Product(Product(r.list_price, shipping), n),
                       Product(paid, r.tax_pct), Product(n, r.wholesale_cost))
  IN  [quantity |-> quantity, ext_list_price |-> Product(r.list_price, n), totals |-> totals,
       refunded_cash |-> cash, reversed_charge |-> charge, store_credit |-> credit, fee |-> fee,
       net_loss |-> Added(Less(Less(Less(totals.net_paid_inc_ship_tax, credit), cash), charge), fee)]

-----------------------------------------------------------------------------
PricingInit == sale = <<>> /\ refund = <<>>

MakeSale ==
  /\ sale = <<>>
  /\ \E quantity \in Quantities, wholesale \in genrand_decimal(Costs), markup \in genrand_decimal(Markups),
        discount, coupon \in genrand_decimal(Fractions), shipping \in genrand_decimal(Shippings),
        tax \in genrand_decimal(TaxRates) :
       sale' = SalesAmounts(quantity, wholesale, markup, discount, coupon, shipping, tax)
  /\ UNCHANGED refund

\* As many are returned as were sold, or fewer.
MakeReturn ==
  /\ sale # <<>> /\ refund = <<>>
  /\ \E quantity \in Quantities \intersect 1 .. sale.quantity, shipping \in genrand_decimal(Shippings),
        cashPct, creditPct \in Fractions, fee \in genrand_decimal(Fees) :
       creditPct > 0 /\ refund' = ReturnsAmounts(sale, quantity, shipping, cashPct, creditPct, fee)
  /\ UNCHANGED sale

PricingNext == MakeSale \/ MakeReturn

PricingSpec == PricingInit /\ [][PricingNext]_pricingVars

-----------------------------------------------------------------------------
IsMoney(d) == d.precision = 2 /\ d.number >= 0

(* The amounts of a sale are such as a shop would write: no price is below *)
(* nothing or above what it was reduced from, a coupon and the tax are no  *)
(* more than their part of what is paid, and what is paid with shipping    *)
(* and tax is the same from either side.                                   *)
SaleAddsUp(r) ==
  LET t == r.totals IN
  /\ \A d \in {r.sales_price, r.ext_discount_amt, r.coupon_amt, t.net_paid, t.ext_tax,
               t.ext_ship_cost} : IsMoney(d)
  /\ r.wholesale_cost.number <= r.list_price.number
  /\ r.sales_price.number <= r.list_price.number
  /\ t.net_paid_inc_ship_tax.number = t.net_paid_inc_tax.number + t.ext_ship_cost.number
  /\ 100 * t.ext_tax.number <= 9 * t.net_paid.number
  /\ 2 * t.ext_ship_cost.number <= r.ext_list_price.number
  /\ t.net_profit.number + t.ext_wholesale_cost.number + r.coupon_amt.number
       = r.ext_sales_price.number

(* What a return gives back in cash, as a charge reversed and as credit,   *)
(* each cut off to the cent, is none below nothing and together to the     *)
(* cent the price of what is returned, which is no more than that of what  *)
(* was sold; and the shop loses the shipping, the tax and the fee.  (But   *)
(* for a coupon: it is not taken off again, so that more may be given back *)
(* than was paid.)                                                         *)
RefundAddsUp(r, s) ==
  LET t == r.totals IN
  /\ \A d \in {r.refunded_cash, r.reversed_charge, r.store_credit, t.ext_tax} : IsMoney(d)
  /\ r.refunded_cash.number + r.reversed_charge.number + r.store_credit.number
       = t.net_paid.number
  /\ t.net_paid.number = r.quantity * s.sales_price.number
  /\ t.net_paid.number <= s.ext_sales_price.number
  /\ t.net_paid_inc_ship_tax.number = t.net_paid_inc_tax.number + t.ext_ship_cost.number
  /\ r.net_loss.number = t.ext_ship_cost.number + t.ext_tax.number + r.fee.number

(* So every amount of a line item and of its return agrees with the others.*)
AmountsAddUp == (sale # <<>> => SaleAddsUp(sale)) /\ (refund # <<>> => RefundAddsUp(refund, sale))

=============================================================================
