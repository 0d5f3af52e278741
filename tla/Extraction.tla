----------------------------- MODULE Extraction -----------------------------
(***************************************************************************)
(* What the ocr-service makes of one uploaded document                     *)
(* (services/ocr-service/app: pipeline, routing, extract, validation,      *)
(* match).  Everything is an operator of the document and of the services  *)
(* that answered; Intake.tla queues the result.                            *)
(*                                                                         *)
(* A document is a record                                                  *)
(*   pages  [1..n -> [layer : BOOLEAN, conf : 0..100]], whether the page   *)
(*          has a usable text layer, and the confidence OCR would have;    *)
(*   llm    what the tool call reads, or None when the model declines;     *)
(*   regex  what the regular expressions read;                             *)
(*   seller, buyer  how alike (0..100) the read names and the company's    *)
(*          names are.                                                     *)
(* A reading is a record [field : [Field -> value or None], items : total  *)
(* of the line items or None].  Confidences are percentages; amounts are   *)
(* integers, exact where the code allows a paisa.                          *)
(***************************************************************************)
EXTENDS Integers, FiniteSets

Sets == INSTANCE FiniteSetsExt

CONSTANTS None,            \* nothing was read
          MaxPages,        \* MAX_PAGES
          RegexBase,       \* confidence of what the regular expressions read
          LlmBase,         \* confidence of what the model read
          ConfOther,       \* CONF_OTHER
          ConfFinancial,   \* CONF_FINANCIAL
          MatchThreshold   \* MATCH_THRESHOLD

ASSUME ConfidenceScale ==
  /\ {MaxPages, RegexBase, LlmBase, ConfOther, ConfFinancial, MatchThreshold} \subseteq Nat
  /\ RegexBase < ConfOther
  /\ 0 < ConfOther /\ ConfOther <= ConfFinancial /\ ConfFinancial <= 100
ASSUME NoneIsNoAmount == None \notin Int

Field == {"vendor_name", "buyer_name", "invoice_number", "invoice_date", "due_date",
          "amount", "tax_amount"}
Financial == {"amount", "tax_amount", "invoice_date"}
Informational == {"buyer_name", "due_date"}
Required == {"vendor_name", "invoice_number", "amount"}

\* The services the pipeline asks.  Each may be missing from the set that answered.
Service == {"engine", "llm", "settings", "lookup"}

-----------------------------------------------------------------------------
\* route_pages: pages beyond the limit are not read at all.
Kept(paper) == {i \in DOMAIN paper.pages : i <= MaxPages}
Scanned(paper) == {i \in Kept(paper) : ~paper.pages[i].layer}

\* combine_pages: a scan nobody could read counts with confidence 0, and one
\* failing page fails the engine for all of them.
PageConfidence(paper, up, i) ==
  IF paper.pages[i].layer THEN 100
  ELSE IF "engine" \in up THEN paper.pages[i].conf ELSE 0

HasText(paper, up) == \E i \in Kept(paper) : PageConfidence(paper, up, i) > 0

\* Mutant of Capped: no cap, a confident model makes up for a bad scan.
CappedNever(paper, up, base) == base

\* _ocr_confidence_cap applied to base: the worst scan caps every field.
Capped(paper, up, base) ==
  Sets!Min({base} \cup {PageConfidence(paper, up, i) : i \in Scanned(paper)})

\* The tool call, or the regular expressions when it is off, declines or raises.
ByModel(paper, up) == "llm" \in up /\ paper.llm # None
Reading(paper, up) == IF ByModel(paper, up) THEN paper.llm ELSE paper.regex

Confidence(paper, up, f) ==
  IF Reading(paper, up).field[f] = None THEN 0
  ELSE Capped(paper, up, IF ByModel(paper, up) THEN LlmBase ELSE RegexBase)

\* Both readers read the grand total; what is stored is the amount before tax.
NetAmount(r) ==
  IF r.field["amount"] # None /\ r.field["tax_amount"] # None
    THEN r.field["amount"] - r.field["tax_amount"]
    ELSE r.field["amount"]

-----------------------------------------------------------------------------
Needed(f) == IF f \in Financial THEN ConfFinancial ELSE ConfOther

LowConfidence(paper, up) ==
  {f \in Field \ Informational : Confidence(paper, up, f) < Needed(f)}

Missing(paper, up) == {f \in Required : Reading(paper, up).field[f] = None}

ItemsDiffer(r) ==
  r.items # None /\ r.items # (IF NetAmount(r) = None THEN 0 ELSE NetAmount(r))

Validated(paper, up) ==
  /\ LowConfidence(paper, up) = {}
  /\ Missing(paper, up) = {}
  /\ ~ItemsDiffer(Reading(paper, up))

\* match.infer_direction, with its default: the side that is our company, the
\* seller winning a tie; payable when the settings or both names fail.
Score(paper, up, f) ==
  IF Reading(paper, up).field[f] = None THEN 0
  ELSE IF f = "vendor_name" THEN paper.seller ELSE paper.buyer

Direction(paper, up) ==
  LET seller == Score(paper, up, "vendor_name")
      buyer  == Score(paper, up, "buyer_name")
  IN  IF /\ "settings" \in up
         /\ seller >= MatchThreshold \/ buyer >= MatchThreshold
         /\ seller >= buyer
        THEN "receivable" ELSE "payable"

\* find_existing_by_number: any party's invoice with the number that was read.
AlreadyEntered(paper, up, numbers) ==
  "lookup" \in up /\ Reading(paper, up).field["invoice_number"] \in numbers

\* process_document: what the draft says of itself.
Process(paper, up, numbers) ==
  IF HasText(paper, up)
    THEN [direction |-> Direction(paper, up),
          valid |-> Validated(paper, up) /\ ~AlreadyEntered(paper, up, numbers)]
    ELSE [direction |-> "payable", valid |-> FALSE]

-----------------------------------------------------------------------------
\* What a valid result lets its reader assume, said of the document itself and
\* not of the way the pipeline decides it: the model read it, no page it kept
\* was read badly, nothing it must carry is absent, and the lines add up.
Trustworthy(paper, up) ==
  /\ "llm" \in up /\ paper.llm # None
  /\ \A i \in DOMAIN paper.pages : i > MaxPages \/ paper.pages[i].layer
       \/ ("engine" \in up /\ paper.pages[i].conf >= ConfFinancial)
  /\ \A f \in Field : paper.llm.field[f] = None => f \in Informational
  /\ paper.llm.items # None =>
       paper.llm.items + paper.llm.field["tax_amount"] = paper.llm.field["amount"]
=============================================================================
