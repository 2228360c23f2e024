CONSTANTS
    www = www
    api = api
    other = other
    example = example
    Names = {"sid"}
    Hosts = {www, api, other}
    Domains = {example}
    Covers <- SomeCovers
    Paths <- TwoPaths
    None = None
    SetCookies <- SomeSetCookies
    Requests <- SomeRequests
    MaxTime = 3
    MaxValue = 3
SPECIFICATION Spec
INVARIANTS CookiesInvariant ReplacedIsNotSent NotSentWhenOver
CHECK_DEADLOCK FALSE
