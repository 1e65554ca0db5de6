\* One name, a valid email and another text, a strong and a weak password.
SPECIFICATION Spec
CONSTANTS
  name = name
  email = email
  notEmail = notEmail
  strong = strong
  weak = weak
  Empty = Empty
  Names = {name}
  Emails = {email, notEmail}
  Passwords = {strong, weak}
  ValidEmails = {email}
  Strong = {strong}
INVARIANTS TypeOK OpenFormWasGood ShutFormSaysWhy
PROPERTIES FilledFormOpens
