SPECIFICATION Spec
CONSTANTS
  InputTypes = {"keywords", "profiles", "ai_queries"}
  MaxDrafts = 2
  MaxPosts = 2
  None = None
INVARIANTS TypeOK OneCampaignPerDraft TermsAreOfTheDraft
PROPERTY ButtonComesBack
