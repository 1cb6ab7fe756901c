--------------------------------- MODULE Joins -------------------------------
(***************************************************************************)
(* dsdgen: the rows of dimensions and the days that a fact refers to       *)
(* (tools/join.c and scd_join() of tools/scd.c).  The builder of a sale    *)
(* sees no row of a dimension: it computes from a drawn number and the day *)
(* of the sale which row was valid then, as the builder of the dimension   *)
(* computed when it would be.  mk_master() makes what the lines of an      *)
(* order have in common, mk_detail() a line and sometimes its return.      *)
(***************************************************************************)
EXTENDS Integers, Sequences

CONSTANTS
  RowsOf,      \* get_rowcount()
  NumberOf,    \* nTableID of the dimensions with history
  IdsOf,       \* the ids drawn of each of these
  WalkedDays,  \* the days of catalog sales, and of refresh orders
  SaleEntries, \* the entries of "calendar" drawn for a store or web sale
  Pages        \* the pages drawn of a catalog

PageTypes == {"bi-annual", "quarterly", "monthly"}

\* The lines of an order of a refresh set.
LinesOf == [i \in {"s_purchase", "s_web_order", "s_catalog_order"} |-> IF i = "s_catalog_order" THEN 9 ELSE 12]

\* strtodt() of the constants of constants.h.
DATA_START_DATE == 2450815
DATA_END_DATE == 2453005
DATE_MAXIMUM == 2452640
TODAYS_DATE == 2452648
CP_CATALOGS_PER_YEAR == 18

(* The rows of a dimension with history, as its builder makes them, and    *)
(* the row of a day, as other builders compute it.                         *)
Dim(t) == INSTANCE Revisions WITH
  MinDay <- DATA_START_DATE, MaxDay <- DATA_END_DATE, MaxRows <- RowsOf[t],
  TableNumbers <- {NumberOf[t]}, Attributes <- {},
  dim <- [table |-> NumberOf[t], rows |-> RowsOf[t]], bkey <- 0, old <- <<>>, built <- <<>>

ItemIds == Dim("item")!IdCount(RowsOf["item"])

Nil == -1   \* no row, no day: printed as NULL

\* The first of January of a year.
NewYear(year) ==
  DATA_START_DATE + 365 * (year - 1998) + (IF year > 2000 THEN 1 ELSE 0)

Leap(year) == year = 2000

-----------------------------------------------------------------------------
(* The joins.                                                              *)

\* The id is drawn; a revision in the future does not exist.
scd_join(t, id, jDate) ==
  LET sk == Dim(t)!MatchSK(id, jDate, RowsOf[t])
  IN  IF jDate > DATA_END_DATE \/ sk > RowsOf[t] THEN Nil ELSE sk

(* date_join() of a sale: the entry of February 29 has no weight in a      *)
(* common year, and entry 1 is the day after the first of January.         *)
DrawnEntries(year) == SaleEntries \ (IF Leap(year) THEN {} ELSE {60})

date_joinOfSale(year, entry) ==
  LET result == NewYear(year) + entry
  IN  IF result > TODAYS_DATE THEN Nil ELSE result

\* The least and greatest delay of shipping, by channel.
ShipDelay == [store |-> <<2, 90>>, catalog |-> <<2, 90>>, web |-> <<1, 120>>]

(* date_join() of a return, case after case without a break, where the     *)
(* first that applies has set nMin: twice the delay of the channel.        *)
date_joinOfReturn(channel, day, lag) == day + 2 * ShipDelay[channel][lag]

PagePerCatalog == (RowsOf["catalog_page"] \div CP_CATALOGS_PER_YEAR) \div (2002 - 1998 + 2)

(* Dimensions have rows, web sites stay open, there are enough pages for   *)
(* the catalogs of six years, and what is drawn is there to be drawn.      *)
ASSUME JoinsAssumption ==
  /\ \A t \in {"call_center", "item", "store", "web_page", "web_site"} :
       RowsOf[t] \in Nat /\ NumberOf[t] \in Nat /\ IdsOf[t] \subseteq 1 .. Dim(t)!IdCount(RowsOf[t])
  /\ RowsOf["concurrent_web_sites"] \in Nat \ {0}
  /\ RowsOf["catalog_page"] \in Nat /\ Pages \subseteq 1 .. PagePerCatalog
  /\ WalkedDays \subseteq DATA_START_DATE .. TODAYS_DATE /\ SaleEntries \subseteq 1 .. 366

\* C division, which rounds towards zero: the first day of all is -1.
YearOffset(jDate) == IF jDate = DATA_START_DATE THEN -1 ELSE (jDate - DATA_START_DATE - 1) % 365

YearsBefore(jDate) == IF jDate = DATA_START_DATE THEN 0 ELSE (jDate - DATA_START_DATE - 1) \div 365

CountInYear(type, offset) ==
  CASE type = "bi-annual" -> (IF offset > 183 THEN 1 ELSE 0)
    [] type = "quarterly" -> (IF offset < 0 THEN 0 ELSE offset \div 91)
    [] type = "monthly" -> (IF offset < 0 THEN 0 ELSE offset \div 31)

(* Wrong variant of cp_join: the days are not reduced to those of a year.  *)
cp_joinOfAllDays(type, page, jDate) ==
  (YearsBefore(jDate) * CP_CATALOGS_PER_YEAR + CountInYear(type, jDate - DATA_START_DATE - 1))
    * PagePerCatalog + page

cp_join(type, page, jDate) ==
  (YearsBefore(jDate) * CP_CATALOGS_PER_YEAR + CountInYear(type, YearOffset(jDate)))
    * PagePerCatalog + page

getCatalogNumberFromPage(sk) == sk \div PagePerCatalog

(* mk_w_catalog_page(): the eighteen catalogs of a year are two of half a  *)
(* year, four of a quarter and twelve of a month.                          *)
CatalogPage(sk) ==
  LET number == (sk - 1) \div PagePerCatalog + 1
      interval == (number - 1) % CP_CATALOGS_PER_YEAR
      type == CASE interval \in 0 .. 1 -> "bi-annual"
                [] interval \in 2 .. 5 -> "quarterly"
                [] OTHER -> "monthly"
      duration == CASE type = "bi-annual" -> 182 [] type = "quarterly" -> 91 [] type = "monthly" -> 30
      offset == CASE type = "bi-annual" -> interval * 182
                  [] type = "quarterly" -> (interval - 2) * 91
                  [] type = "monthly" -> (interval - 6) * 30
      start == DATA_START_DATE + offset + ((number - 1) \div CP_CATALOGS_PER_YEAR) * 365
  IN  [number |-> number, type |-> type, start |-> start, end |-> start + duration - 1]

-----------------------------------------------------------------------------
(* web_join(): the days of a web site and its pages.                       *)

nParam == -1   \* of web_site and web_page in w_tdefs

nSiteDuration == (DATE_MAXIMUM - DATA_START_DATE) * RowsOf["concurrent_web_sites"]

(* The pointers are read after they are freed, and point to one piece of   *)
(* memory, allocated again after the first free(): no difference.          *)
nOffset == 0

\* WEB_IS_REPLACED and WEB_IS_REPLACEMENT
Replaced(site) == site % 2 = 0
Replacement(site) == (site \div 2) % 2 = 1

Staggered(n) == DATA_START_DATE - ((n * 17) % nSiteDuration) \div 2

OpenDay(site) ==
  Staggered(site) + (IF Replaced(site) /\ Replacement(site) THEN nOffset * nSiteDuration ELSE 0)

CloseDay(site) ==
  Staggered(site) + nParam * nSiteDuration
    - (IF Replaced(site) /\ ~Replacement(site) THEN nParam * (nSiteDuration \div 2) ELSE 0)

(* mk_w_web_site(): a site is not closed after its record ends.            *)
SiteDays(site) ==
  [open |-> OpenDay(site),
   close |-> IF CloseDay(site) > Dim("web_site")!EndDay(site) THEN Nil ELSE CloseDay(site)]

(* WP_CREATION_DATE_SK: the site of a page is any % nParam = 0, so that a  *)
(* day is drawn.                                                           *)
CreationDays(page) == Staggered(page \div 123 + 1) .. DATA_START_DATE

-----------------------------------------------------------------------------
VARIABLES
  jorder,   \* what the lines of the order have in common
  jline,    \* the line, or the empty sequence before the first
  jback     \* its return, or the empty sequence

joinVars == <<jorder, jline, jback>>

JoinInit == jorder = <<>> /\ jline = <<>> /\ jback = <<>>

(* mk_master() of w_catalog_sales.c, w_store_sales.c and w_web_sales.c; a  *)
(* store is joined as of day 1.                                            *)
SaleOrder ==
  /\ jorder = <<>> /\ UNCHANGED <<jline, jback>>
  /\ \/ \E day \in WalkedDays, id \in IdsOf["call_center"] :
          jorder' = [channel |-> "catalog", day |-> day, row |-> scd_join("call_center", id, day)]
     \/ \E year \in 1998 .. 2002, id \in IdsOf["store"] : \E entry \in DrawnEntries(year) :
          jorder' = [channel |-> "store", day |-> date_joinOfSale(year, entry), row |-> scd_join("store", id, 1)]
     \/ \E year \in 1998 .. 2002 : \E entry \in DrawnEntries(year) :
          jorder' = [channel |-> "web", day |-> date_joinOfSale(year, entry), row |-> Nil]

(* mk_s_purchase(), mk_s_catalog_order() and mk_s_web_order(): the day is  *)
(* that of the refresh set, the row an entry of the permutation of items.  *)
RefreshOrder ==
  /\ jorder = <<>> /\ UNCHANGED <<jline, jback>>
  /\ \E channel \in DOMAIN LinesOf, day \in WalkedDays, entry \in IdsOf["item"] :
       jorder' = [channel |-> channel, day |-> day, row |-> entry]

(* mk_detail() of the three.                                               *)
SaleLine ==
  /\ jorder # <<>> /\ jline = <<>> /\ UNCHANGED <<jorder, jback>>
  /\ \E id \in IdsOf["item"], lag \in {1, 2} :
       LET day == jorder.day
           Line(type, page, site) ==
             [item |-> Dim("item")!MatchSK(id, day, RowsOf["item"]), type |-> type, page |-> page,
              site |-> site, ship |-> day + ShipDelay[jorder.channel][lag]]
       IN  \/ jorder.channel = "store" /\ jline' = Line("none", Nil, Nil)
           \/ jorder.channel = "catalog" /\ \E type \in PageTypes, page \in Pages :
                jline' = Line(type, cp_join(type, page, day), Nil)
           \/ jorder.channel = "web" /\ \E page \in IdsOf["web_page"], site \in IdsOf["web_site"] :
                jline' = Line("none", scd_join("web_page", page, day), scd_join("web_site", site, day))

(* mk_s_pline() and mk_s_catalog_order_lineitem() go round at the end of   *)
(* the permutation, mk_s_web_order_lineitem() goes on behind it.           *)
NextEntry(channel, entry) ==
  IF entry + 1 <= ItemIds THEN entry + 1 ELSE IF channel = "s_web_order" THEN entry + 2 ELSE 1

(* The day of shipping of an order, not later than today.                  *)
RefreshShipDay(channel, day, lag) ==
  IF channel = "s_purchase" \/ day + lag > TODAYS_DATE THEN Nil ELSE day + lag

RefreshLine ==
  /\ jorder # <<>> /\ jorder.channel \in DOMAIN LinesOf
  /\ LET n == IF jline = <<>> THEN 0 ELSE jline.number
         entry == NextEntry(jorder.channel, IF jline = <<>> THEN jorder.row ELSE jline.entry)
     IN  /\ n < LinesOf[jorder.channel]
         /\ \E lag \in {0, 60}, type \in PageTypes, page \in Pages :
              LET sk == IF jorder.channel = "s_catalog_order" THEN cp_join(type, page, jorder.day) ELSE Nil IN
              jline' = [number |-> n + 1, entry |-> entry, page |-> sk,
                        catalog |-> IF sk = Nil THEN Nil ELSE getCatalogNumberFromPage(sk),
                        ship |-> RefreshShipDay(jorder.channel, jorder.day, lag)]
  /\ jback' = <<>> /\ UNCHANGED jorder

(* mk_w_store_returns(), mk_w_catalog_returns() and mk_w_web_returns(): a  *)
(* store takes back from the day of the sale on, the others from shipping. *)
SaleReturn ==
  /\ jline # <<>> /\ jorder.channel \in DOMAIN ShipDelay /\ jback = <<>>
  /\ \E lag \in {1, 2}, id \in IdsOf["store"] :
       jback' = [day |-> date_joinOfReturn(jorder.channel, IF jorder.channel = "store" THEN jorder.day ELSE jline.ship, lag),
                 row |-> IF jorder.channel = "store" THEN scd_join("store", id, 1) ELSE jline.page]
  /\ UNCHANGED <<jorder, jline>>

(* The returns of refresh orders: a catalog order that has not shipped is  *)
(* not returned, and the others are returned from the day of the order on. *)
RefreshReturn ==
  /\ jline # <<>> /\ jorder.channel \in DOMAIN LinesOf /\ jback = <<>>
  /\ jorder.channel = "s_catalog_order" => jline.ship # Nil
  /\ \E lag \in {IF jorder.channel = "s_web_order" THEN 1 ELSE 0, 60} :
       jback' = [day |-> lag + (IF jorder.channel = "s_catalog_order" THEN jline.ship ELSE jorder.day),
                 row |-> jline.page]
  /\ UNCHANGED <<jorder, jline>>

JoinNext == SaleOrder \/ RefreshOrder \/ SaleLine \/ RefreshLine \/ SaleReturn \/ RefreshReturn

JoinSpec == JoinInit /\ [][JoinNext]_joinVars

-----------------------------------------------------------------------------
Sale == jorder # <<>> /\ jorder.channel \in DOMAIN ShipDelay
Refresh == jorder # <<>> /\ jorder.channel \in DOMAIN LinesOf

\* The last row, with no row for the revisions that follow it: of the
\* dimensions at the scales of scaling.dst, web_page at 10 GB ends so.
LastCutOff(t, sk) == sk = RowsOf[t] /\ RowsOf[t] % 6 \in {2, 4, 5}

\* The row is the revision of the day, as many days before as the builder
\* of the dimension shifts its dates, or one that is valid no more if the
\* revision of the day was cut off.
ValidFor(t, sk, day) ==
  LET then == day - 6 * NumberOf[t] IN
  /\ sk \in 1 .. RowsOf[t]
  /\ Dim(t)!BeginDay(sk) <= then
  /\ Dim(t)!EndDay(sk) = Nil \/ then <= Dim(t)!EndDay(sk) \/ LastCutOff(t, sk)

(* A page exists and is one of the year of the sale.  Of the catalog that  *)
(* was active (or ended three days ago) it is, if that is of half a year;  *)
(* the catalogs of a quarter or a month are counted from the first of all  *)
(* the catalogs of the year, not from the first of their kind (see         *)
(* PageActive).                                                            *)
PageFits(type, sk, day) ==
  LET p == CatalogPage(sk) IN
  /\ sk \in 1 .. RowsOf["catalog_page"]
  /\ (p.number - 1) \div CP_CATALOGS_PER_YEAR = YearsBefore(day)
  /\ type = "bi-annual" => p.type = type /\ p.start <= day /\ day <= p.end + 3
  /\ type # "bi-annual" => p.number % CP_CATALOGS_PER_YEAR \in 1 .. (IF type = "monthly" THEN 12 ELSE 5)

(* What a sale refers to exists, and the day it has is one of the data: of *)
(* the call center, the item, the web page and the web site the revision   *)
(* of the shifted day (see WebPageValid), a store in its first revision, a *)
(* page of a catalog of the year, a web page created and a site opened     *)
(* before the sale; a site that has a day of closing closed before it      *)
(* opened (see SiteOpen).  Nothing is shipped before it is sold or         *)
(* returned before it is shipped, or in a store sold.                      *)
SalesFit ==
  Sale =>
    /\ jorder.day \in DATA_START_DATE .. TODAYS_DATE
    /\ jorder.channel = "catalog" => ValidFor("call_center", jorder.row, jorder.day)
    /\ jorder.channel = "store" => jorder.row \in {Dim("store")!FirstSK(id) : id \in IdsOf["store"]}
    /\ jline # <<>> =>
         /\ jline.ship > jorder.day
         /\ ValidFor("item", jline.item, jorder.day)
         /\ jorder.channel = "catalog" => PageFits(jline.type, jline.page, jorder.day)
         /\ jorder.channel = "web" =>
              /\ ValidFor("web_page", jline.page, jorder.day)
              /\ \A day \in CreationDays(jline.page) : day < jorder.day
              /\ ValidFor("web_site", jline.site, jorder.day)
              /\ SiteDays(jline.site).open < jorder.day
              /\ SiteDays(jline.site).close # Nil => SiteDays(jline.site).close < SiteDays(jline.site).open
    /\ jback # <<>> =>
         jback.day > (IF jorder.channel = "store" THEN jorder.day ELSE jline.ship)

(* The lines of a refresh order are of items, except that a web order that *)
(* comes to the end of the permutation reads behind it. Nothing ships      *)
(* later than today; a return comes after what it is counted from. The     *)
(* catalog named beside a page is the one before the page's, but for the   *)
(* last page of each.                                                      *)
RefreshFits ==
  Refresh /\ jline # <<>> =>
    /\ jline.entry \in 1 .. ItemIds
         \/ (jorder.channel = "s_web_order" /\ jorder.row + jline.number > ItemIds)
    /\ jline.ship # Nil => jline.ship \in jorder.day .. TODAYS_DATE
    /\ jback # <<>> => jback.day >= (IF jorder.channel = "s_catalog_order" THEN jline.ship ELSE jorder.day)
    /\ jline.page # Nil =>
         /\ jline.page \in 1 .. RowsOf["catalog_page"]
         /\ CatalogPage(jline.page).number - jline.catalog = IF jline.page % PagePerCatalog = 0 THEN 0 ELSE 1

(* Facts refer to rows and days that fit together.                         *)
JoinsFit == SalesFit /\ RefreshFits

SaleOf(channel) == Sale /\ jorder.channel = channel /\ jline # <<>>

(* The page of a catalog sale is of a catalog active at the time of sale.  *)
PageActive ==
  SaleOf("catalog") =>
    LET p == CatalogPage(jline.page) IN p.start <= jorder.day /\ jorder.day <= p.end

(* The web page of a sale is valid on the day of the sale.                 *)
WebPageValid ==
  SaleOf("web") =>
    /\ Dim("web_page")!BeginDay(jline.page) <= jorder.day
    /\ \/ Dim("web_page")!EndDay(jline.page) = Nil
       \/ jorder.day <= Dim("web_page")!EndDay(jline.page)

(* The day of a web sale is within the lifetime of its site.               *)
SiteOpen ==
  SaleOf("web") =>
    LET s == SiteDays(jline.site) IN
    s.open <= jorder.day /\ (s.close = Nil \/ jorder.day <= s.close)

(* What the code says of a sale and the day it is made: the page is of a   *)
(* catalog active then (w_catalog_sales.c:208), the web page is valid then *)
(* (w_web_sales.c:180), and the day is within the lifetime of the site     *)
(* (join.c:269-270).                                                       *)
ValidWhenSold == PageActive /\ WebPageValid /\ SiteOpen

=============================================================================
