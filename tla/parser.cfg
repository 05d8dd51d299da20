SPECIFICATION Spec
CONSTANTS
  MANTX_EXTRALISTFIELD_COUNT = 2
  RlpItem <- MCRlpItem
  Texts <- MCTexts
  Widths <- MCWidths
INVARIANTS
  TypeOK
  ShowsThisText
  LabelsFitFields
  RecipientsShown
  VerdictIsOfText
  ValidatedCanBeShown
