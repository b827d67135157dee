\* An outage of the API while a page request waits for new cookies.
SPECIFICATION BrowserSpec
CONSTANTS
  Page = {p1, p2}
  MaxTokens = 3
  MaxPages = 3
PROPERTY OutageKeepsCookies
CHECK_DEADLOCK FALSE
