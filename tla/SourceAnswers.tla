--------------------------- MODULE SourceAnswers ----------------------------
(***************************************************************************)
(* How the price sources read what a store answers: the status, a bot wall *)
(* that comes with status 200, and the places of a page or a JSON body a   *)
(* price may be in.  A place holds a price, something that is no number    *)
(* (Junk), or nothing (None); each adapter has its own order of looking.   *)
(***************************************************************************)
EXTENDS Naturals, Sequences

CONSTANTS
  Price,    \* prices a store can quote
  None,     \* the place is missing or empty
  Junk      \* the place holds no parseable number

ASSUME DistinctRaw == None \notin Price /\ Junk \notin Price /\ None # Junk

Source == {"mock", "scraper", "ebay_scraper", "shein_scraper", "web",
           "ebay", "bestbuy", "rapidapi"}

Raw == Price \cup {None, Junk}

Answer ==
  [ status    : Nat,
    retryAfter : Nat \cup {None},
    wall      : BOOLEAN,     \* redirected to a /risk, /captcha, ... page
    complete  : BOOLEAN,     \* the card has its id and its link
    ld        : Seq(Raw),    \* JSON-LD products: price or lowPrice
    meta      : Raw,         \* product:price:amount, og:price:amount
    microdata : Raw,         \* itemprop="price"
    dom       : Raw,         \* the price element the adapter selects
    price     : Raw,         \* the top-level price of a JSON body
    offers    : Seq(Raw) ]   \* the prices of its `offers` list

\* parse_price: no usable value is None, never an exception.
ParsePrice(raw) == IF raw = Junk THEN None ELSE raw

First(seq, values) ==
  LET hits == {i \in DOMAIN seq : seq[i] \in values}
  IN  IF hits = {} THEN None
      ELSE seq[CHOOSE i \in hits : \A j \in hits : i <= j]

\* WebPageSource takes the first JSON-LD product that names a price at all and
\* falls back to the next layer if that is no number.
FromPage(answer) ==
  First(<<First(answer.ld, Price \cup {Junk}), answer.meta, answer.microdata>>, Price)

\* An eBay page: every JSON-LD product, then the content attribute of the
\* price element and then its text.  SHEIN's has no such attribute.
FromEbayPage(answer)  == First(answer.ld \o <<answer.microdata, answer.dom>>, Price)
FromSheinPage(answer) == First(answer.ld \o <<answer.dom>>, Price)

\* A card without its title, id, link or price is skipped.
FromCard(card) == IF card.complete THEN ParsePrice(card.dom) ELSE None

\* Best Buy, eBay and the mock store: Decimal(str(...)) of one field, which
\* raises on a value that is missing or no number.
FromField(answer) == ParsePrice(answer.price)

\* /search has the price at the top level, /product-details in its first offer.
FromProduct(answer) ==
  ParsePrice(IF answer.price = None /\ answer.offers # <<>>
             THEN answer.offers[1] ELSE answer.price)

QuotedPrice(source, answer) ==
  CASE source \in {"mock", "ebay", "bestbuy"} -> FromField(answer)
    [] source = "scraper"                     -> FromCard(answer)
    [] source = "ebay_scraper"                -> FromEbayPage(answer)
    [] source = "shein_scraper"               -> FromSheinPage(answer)
    [] source = "web"                         -> FromPage(answer)
    [] source = "rapidapi"                    -> FromProduct(answer)

\* The adapters that call raise_if_listing_gone, raise_if_rate_limited, and
\* that look at the final URL.
TellsGone      == {"web", "ebay", "bestbuy", "rapidapi"}
TellsThrottled == {"ebay", "rapidapi"}
SeesWall       == {"web", "shein_scraper"}

Outcome(kind) == [kind |-> kind, price |-> None]

\* Mutant: the final URL of the answer is not looked at.
FetchedUnwalled(source, answer) ==
  CASE answer.status \in {404, 410} /\ source \in TellsGone      -> Outcome("gone")
    [] answer.status = 429 /\ source \in TellsThrottled          -> Outcome("throttled")
    [] OTHER ->
         LET quoted == QuotedPrice(source, answer)
         IN  IF answer.status >= 400 \/ quoted = None THEN Outcome("failed")
             ELSE [kind |-> "offer", price |-> quoted]

\* fetch() of an adapter: ListingGoneError, RateLimitedError, any other
\* exception ("failed", SourceBlockedError among them), or an offer.
Fetched(source, answer) ==
  CASE answer.status \in {404, 410} /\ source \in TellsGone      -> Outcome("gone")
    [] answer.status = 429 /\ source \in TellsThrottled          -> Outcome("throttled")
    [] OTHER ->
         LET quoted == QuotedPrice(source, answer)
         IN  IF answer.status >= 400 \/ (answer.wall /\ source \in SeesWall) \/ quoted = None
             THEN Outcome("failed")
             ELSE [kind |-> "offer", price |-> quoted]

\* Every price a page or body quotes somewhere.
Quotes(answer) ==
  {answer.ld[i] : i \in DOMAIN answer.ld} \cup {answer.offers[i] : i \in DOMAIN answer.offers}
    \cup {answer.meta, answer.microdata, answer.dom, answer.price}

\* The price of one result of a search, from the card alone on an HTML page.
ResultPrice(source, card) ==
  CASE source \in {"scraper", "ebay_scraper", "shein_scraper"} -> FromCard(card)
    [] source = "rapidapi"                                     -> FromProduct(card)
    [] source \in {"mock", "ebay", "bestbuy"}                  -> FromField(card)

\* The three sources that convert with Decimal abort the whole search on a
\* price that is no number, the mock store on one that is missing too.
Aborts(source, cards) ==
  \/ source \in {"ebay", "bestbuy"} /\ \E c \in cards : c.price = Junk
  \/ source = "mock" /\ \E c \in cards : c.price \notin Price

\* search() of an adapter over the results in its answer.
Searched(source, answer, cards) ==
  IF \/ answer.status >= 400
     \/ answer.wall /\ source = "shein_scraper"
     \/ Aborts(source, cards)
  THEN [kind |-> "failed", cards |-> {}]
  ELSE [kind |-> "offers", cards |-> {c \in cards : ResultPrice(source, c) # None}]
=============================================================================
