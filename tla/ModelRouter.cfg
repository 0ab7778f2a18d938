\* Two providers with three models; each may fail at will or never.
CONSTANTS
    flash = flash
    mini = mini
    pro = pro
    gemini = gemini
    openai = openai
    r1 = r1
    r2 = r2
    Routes = {r1, r2}
    Models = {flash, mini, pro}
    Providers = {gemini, openai}
    ProviderOf <- MCProviderOf
    Enabled = {flash, mini, pro}
    Chain <- MCChain
    StreamModel = flash
    Threshold = 2
    Recovery = 1
    MaxRetries = 2
SPECIFICATION FairRouterSpec
INVARIANT RouterTypeOK
INVARIANT ReliableAnswers
INVARIANT OpenOnlyForEarlierRoutes
PROPERTY BreakerRecovers
